---- MODULE Spec2Model ----
(***************************************************************************)
(* Dali-Distiller: the grammar-fragment parsers, the type compressor and   *)
(* the tiered schema converters, as state machines over Python strings.    *)
(* Strings are TLA+ strings; Len, \o, SubSeq, Head and Tail act on them    *)
(* character by character, as Python's str does.                           *)
(***************************************************************************)
EXTENDS Integers, Sequences, FiniteSets, TLC

VARIABLES
    type_str,       \* TypeCompressor: the argument of compress_type
    type_code,      \* TypeCompressor: the value compress_type returned
    signature,      \* FunctionSignatureParser: the signature string
    parsed_sig,     \* FunctionSignatureParser: what parse_function_signature returned
    split_input,    \* FunctionSignatureParser: the argument of _split_params
    split_parts,    \* FunctionSignatureParser: the list _split_params returned
    api_matches,    \* the API DEFINITION blocks of a file, in order
    api_signatures, \* what extract_api_definition_blocks returned
    bnf_line,       \* GrammarLineParser: the argument of parse_bnf_line
    parsed_line,    \* GrammarLineParser: the dict parse_bnf_line returned
    pattern_syntax, \* DualSchemaConverter: the argument of _extract_pattern
    pattern_result, \* DualSchemaConverter: the str _extract_pattern returned
    estimate_tree,  \* BNFToYAMLConverter: the argument of estimate_token_count
    estimate_count, \* BNFToYAMLConverter: the int estimate_token_count returned, wrapped
    bnf_raw,        \* BNFToYAMLConverter.raw_data: the (hierarchy, data) items in order
    bnf_schema,     \* BNFToYAMLConverter.schema['surrealql']['statements']
    bnf_calls,      \* how many times process_statements has run on this converter
    raw_data,       \* the raw extraction the three converters of a run load
    hash_order,     \* the str hash order of the process of each converter, once drawn
    ran,            \* the conversions that have run since their converter was built
    full_schema,    \* DualSchemaConverter.full_schema['surrealql_schema'], None before
    compressed_schema, \* DualSchemaConverter.compressed_schema['surrealql'], None before
    ultra_schema,   \* UltraCompressedConverter.schema['surrealql']
    enhanced_schema,   \* EnhancedSchemaConverter.schema['surrealql_schema_enhanced']
    intent_router,  \* EnhancedSchemaConverter.intent_router[...]['routes']
    prev_run        \* the trees the run before this one left, when there was one

typeVars == <<type_str, type_code>>
sigVars == <<signature, parsed_sig, split_input, split_parts, api_matches, api_signatures>>
lineVars == <<bnf_line, parsed_line>>
patternVars == <<pattern_syntax, pattern_result>>
estimateVars == <<estimate_tree, estimate_count>>
bnfVars == <<bnf_raw, bnf_schema, bnf_calls>>
otherVars == <<typeVars, sigVars, lineVars, patternVars, estimateVars, bnfVars>>
pipeVars == <<raw_data, hash_order, ran, full_schema, compressed_schema, ultra_schema,
              enhanced_schema, intent_router, prev_run>>
vars == <<type_str, type_code, signature, parsed_sig, split_input, split_parts,
          api_matches, api_signatures, bnf_line, parsed_line,
          pattern_syntax, pattern_result, estimate_tree, estimate_count,
          bnf_raw, bnf_schema, bnf_calls, raw_data, hash_order, ran, full_schema,
          compressed_schema, ultra_schema, enhanced_schema, intent_router, prev_run>>

\* Python's None where a str is expected. No string of the input alphabets
\* equals it.
None == "<None>"

\* Python's None where a dict or a list is expected.
NoneObj == [none |-> TRUE]

\* A result slot no call has filled yet.
NotRun == [notrun |-> TRUE]

\* A result slot filled with the list a call returned.
Returned(list) == [returned |-> list]

\* A component no specification of which it is part is running.
TypeIdle == type_str = None /\ type_code = None
ParseIdle == signature = None /\ parsed_sig = NotRun
SplitIdle == split_input = None /\ split_parts = NotRun
ApiIdle == api_matches = <<>> /\ api_signatures = NotRun
SigIdle == ParseIdle /\ SplitIdle /\ ApiIdle
LineIdle == bnf_line = None /\ parsed_line = NotRun
PatternIdle == pattern_syntax = None /\ pattern_result = None
EstimateIdle == estimate_tree = NotRun /\ estimate_count = NotRun
ToolsIdle == PatternIdle /\ EstimateIdle
BnfIdle == bnf_raw = <<>> /\ bnf_schema = <<>> /\ bnf_calls = 0
PipeIdle ==
    /\ raw_data = NotRun /\ hash_order = NotRun /\ ran = {}
    /\ full_schema = NotRun /\ compressed_schema = NotRun /\ ultra_schema = NotRun
    /\ enhanced_schema = NotRun /\ intent_router = NotRun /\ prev_run = NotRun

(***************************************************************************)
(* str helpers                                                             *)
(***************************************************************************)
At(s, i) == SubSeq(s, i, i)

StartsWith(s, p) == Len(s) >= Len(p) /\ SubSeq(s, 1, Len(p)) = p

UPPER == "ABCDEFGHIJKLMNOPQRSTUVWXYZ"
LOWER == "abcdefghijklmnopqrstuvwxyz"
DIGITS == "0123456789"

\* str.find of a single character, 1-based; 0 when absent.
FindFrom(c, s, i) ==
    LET hits == {j \in i..Len(s) : At(s, j) = c}
    IN  IF hits = {} THEN 0 ELSE CHOOSE j \in hits : \A k \in hits : j <= k

IndexIn(c, s) == FindFrom(c, s, 1)

\* The characters of a str, and the position of each in it.
CharsOf(s) == {At(s, i) : i \in 1..Len(s)}
PositionsIn(s) == [c \in CharsOf(s) |-> IndexIn(c, s)]

UpperChars == CharsOf(UPPER)
LowerChars == CharsOf(LOWER)
DigitChars == CharsOf(DIGITS)
UpperPosition == PositionsIn(UPPER)

LowerChar(c) == IF c \in UpperChars THEN At(LOWER, UpperPosition[c]) ELSE c

\* str.lower()
RECURSIVE lower(_)
lower(s) == IF s = "" THEN "" ELSE LowerChar(Head(s)) \o lower(Tail(s))

IsSpace(c) == c \in {" ", "\t", "\n", "\r"}

\* str.lstrip(), str.rstrip(), str.strip()
RECURSIVE lstrip(_)
lstrip(s) == IF s # "" /\ IsSpace(Head(s)) THEN lstrip(Tail(s)) ELSE s

RECURSIVE rstrip(_)
rstrip(s) ==
    IF s # "" /\ IsSpace(At(s, Len(s))) THEN rstrip(SubSeq(s, 1, Len(s) - 1)) ELSE s

strip(s) == rstrip(lstrip(s))

\* c in s, for a single character c
Contains(s, c) == IndexIn(c, s) # 0

\* str.split(sep) for a one-character sep: the pieces between the separators,
\* empty pieces kept.
RECURSIVE SplitOn(_, _)
SplitOn(s, sep) ==
    LET i == IndexIn(sep, s)
    IN  IF i = 0 THEN <<s>>
        ELSE <<SubSeq(s, 1, i - 1)>> \o SplitOn(SubSeq(s, i + 1, Len(s)), sep)

\* sep.join(parts)
RECURSIVE Join(_, _)
Join(parts, sep) ==
    IF parts = <<>> THEN ""
    ELSE IF Len(parts) = 1 THEN parts[1]
    ELSE parts[1] \o sep \o Join(Tail(parts), sep)

\* \w (ASCII)
IsWordChar(c) == c \in UpperChars \/ c \in LowerChars \/ c \in DigitChars \/ c = "_"

\* The character classes of the patterns: \S, \w, [A-Z], [A-Z_], [a-z_]
InClass(c, cls) ==
    CASE cls = "\\S" -> ~IsSpace(c)
      [] cls = "\\w" -> IsWordChar(c)
      [] cls = "[A-Z]" -> c \in UpperChars
      [] cls = "[A-Z_]" -> c \in UpperChars \/ c = "_"
      [] cls = "[a-z_]" -> c \in LowerChars \/ c = "_"

\* The length of the longest prefix of s whose characters are in class cls.
RECURSIVE RunLen(_, _)
RunLen(s, cls) == IF s # "" /\ InClass(Head(s), cls) THEN 1 + RunLen(Tail(s), cls) ELSE 0

\* str.split() without argument: the runs of non-whitespace.
RECURSIVE SplitWS(_)
SplitWS(s) ==
    LET t == lstrip(s)
        n == RunLen(t, "\\S")
    IN  IF t = "" THEN <<>>
        ELSE <<SubSeq(t, 1, n)>> \o SplitWS(SubSeq(t, n + 1, Len(t)))

\* s[:n]
Prefix(s, n) == IF Len(s) <= n THEN s ELSE SubSeq(s, 1, n)

\* The maximal runs of \w in s, in order, each with the character before it
\* ("" at the start of s).
RECURSIVE WordRuns(_, _)
WordRuns(s, before) ==
    IF s = "" THEN <<>>
    ELSE IF IsWordChar(Head(s))
    THEN LET n == RunLen(s, "\\w")
         IN  <<[text |-> SubSeq(s, 1, n), before |-> before]>>
             \o WordRuns(SubSeq(s, n + 1, Len(s)), At(s, n))
    ELSE WordRuns(Tail(s), Head(s))

\* re.findall(r'\b[A-Z]{2,}\b', s): between two word boundaries lies a whole
\* run of \w, so a match is a run made of two or more capitals.
FindUpperWords(s) ==
    LET IsKw(w) == Len(w.text) >= 2 /\ RunLen(w.text, "[A-Z]") = Len(w.text)
        ws == SelectSeq(WordRuns(s, ""), IsKw)
    IN  [i \in 1..Len(ws) |-> ws[i].text]

\* re.findall(r'\b([A-Z_]+)\b', s): the runs of \w made of capitals and '_'.
FindUpperUnderscoreWords(s) ==
    LET IsKw(w) == RunLen(w.text, "[A-Z_]") = Len(w.text)
        ws == SelectSeq(WordRuns(s, ""), IsKw)
    IN  [i \in 1..Len(ws) |-> ws[i].text]

\* re.findall(r'@(\w+)', s): the runs of \w that follow an '@'.
FindVariables(s) ==
    LET IsVar(w) == w.before = "@"
        ws == SelectSeq(WordRuns(s, ""), IsVar)
    IN  [i \in 1..Len(ws) |-> ws[i].text]

\* The set of the elements of a list.
Range(seq) == {seq[i] : i \in 1..Len(seq)}

\* sub in s
IsSubstring(sub, s) ==
    \E i \in 1..(Len(s) - Len(sub) + 1) : SubSeq(s, i, i + Len(sub) - 1) = sub

\* The order of str: by code point, character by character (the printable
\* ASCII characters the inputs use, in code-point order).
ASCII == " !#$%&'()*+,-./0123456789:;<=>?@ABCDEFGHIJKLMNOPQRSTUVWXYZ[]^_abcdefghijklmnopqrstuvwxyz{|}~"

CodePoint == PositionsIn(ASCII)

RECURSIVE StrLess(_, _)
StrLess(a, b) ==
    IF b = "" THEN FALSE
    ELSE IF a = "" THEN TRUE
    ELSE IF Head(a) = Head(b) THEN StrLess(Tail(a), Tail(b))
    ELSE CodePoint[Head(a)] < CodePoint[Head(b)]

\* sorted(S) for a set of str
RECURSIVE SortedList(_)
SortedList(S) ==
    IF S = {} THEN <<>>
    ELSE LET m == CHOOSE x \in S : \A y \in S \ {x} : StrLess(x, y)
         IN  <<m>> \o SortedList(S \ {m})

\* The empty dict, and d[k] = v
EmptyDict == <<>>
DictSet(d, k, v) == [x \in DOMAIN d \cup {k} |-> IF x = k THEN v ELSE d[x]]

\* dict.get(key, default) on a dict held as a TLA+ function
DictGet(d, k, default) == IF k \in DOMAIN d THEN d[k] ELSE default

(***************************************************************************)
(* GrammarLineParser and StatementAggregator (converter.py)                *)
(***************************************************************************)
\* What \[\s*([^[\]]+)\s*\] captures from the text between the brackets: the
\* leading \s* is greedy, the group takes the rest; of a text that is all
\* whitespace the group keeps the last character.
CaptureOptional(content) ==
    IF lstrip(content) = "" THEN At(content, Len(content)) ELSE lstrip(content)

\* The length of the longest prefix of s without '[' and ']'.
RECURSIVE NoBracketLen(_)
NoBracketLen(s) ==
    IF s # "" /\ Head(s) # "[" /\ Head(s) # "]" THEN 1 + NoBracketLen(Tail(s)) ELSE 0

\* re.findall(r'\[\s*([^[\]]+)\s*\]', line): left to right, a '[' whose next
\* bracket is a ']' at least one character later.
RECURSIVE FindOptionalSpans(_)
FindOptionalSpans(s) ==
    IF s = "" THEN <<>>
    ELSE IF Head(s) = "["
    THEN LET n == NoBracketLen(Tail(s))
         IN  IF n >= 1 /\ Len(s) >= n + 2 /\ At(s, n + 2) = "]"
             THEN <<CaptureOptional(SubSeq(s, 2, n + 1))>>
                  \o FindOptionalSpans(SubSeq(s, n + 3, Len(s)))
             ELSE FindOptionalSpans(Tail(s))
    ELSE FindOptionalSpans(Tail(s))

\* [choice.strip() for choice in match.split('|')] without the empty entries
\* and the entries that start with '@'.
ChoicesOf(match) ==
    LET parts == SplitOn(match, "|")
        stripped == [i \in 1..Len(parts) |-> strip(parts[i])]
        Keep(c) == c # "" /\ ~StartsWith(c, "@")
    IN  SelectSeq(stripped, Keep)

\* The loop over optional_matches: each match overwrites the key it sets.
RECURSIVE OptionalLoop(_, _)
OptionalLoop(matches, result) ==
    IF matches = <<>> THEN result
    ELSE LET match == Head(matches)
             choices == ChoicesOf(match)
         IN  OptionalLoop(Tail(matches),
                 IF Contains(match, "|")
                 THEN IF choices # <<>> THEN DictSet(result, "optional_choices", choices)
                      ELSE result
                 ELSE IF ~StartsWith(match, "@")
                      THEN DictSet(result, "optional", strip(match))
                      ELSE result)

\* A parse_bnf_line that keeps every keyword candidate of the line, the
\* bracketed ones included.
parse_bnf_line_keep_all_keywords(raw_line) ==
    LET line == strip(raw_line)
        r1 == OptionalLoop(FindOptionalSpans(line), EmptyDict)
        variables == FindVariables(line)
        r2 == IF variables # <<>> THEN DictSet(r1, "variables", variables) ELSE r1
        keywords == FindUpperWords(line)
    IN  IF line = "" THEN EmptyDict
        ELSE IF keywords # <<>> THEN DictSet(r2, "keywords", keywords)
        ELSE r2

parse_bnf_line(raw_line) ==
    LET line == strip(raw_line)
        optional_matches == FindOptionalSpans(line)
        r1 == OptionalLoop(optional_matches, EmptyDict)
        variables == FindVariables(line)
        r2 == IF variables # <<>> THEN DictSet(r1, "variables", variables) ELSE r1
        InOptional(keyword) ==
            \E i \in 1..Len(optional_matches) : IsSubstring(keyword, optional_matches[i])
        NotInOptional(keyword) == ~InOptional(keyword)
        filtered_keywords == SelectSeq(FindUpperWords(line), NotInOptional)
    IN  IF line = "" THEN EmptyDict
        ELSE IF filtered_keywords # <<>> THEN DictSet(r2, "keywords", filtered_keywords)
        ELSE r2

\* The union of the lists parsed[key] over the parsed lines that hold key.
RECURSIVE UnionOf(_, _)
UnionOf(parsed_lines, key) ==
    IF parsed_lines = <<>> THEN {}
    ELSE (IF key \in DOMAIN Head(parsed_lines) THEN Range(Head(parsed_lines)[key]) ELSE {})
         \cup UnionOf(Tail(parsed_lines), key)

\* optional_components: per parsed line its optional_choices, then its
\* single optional as a one-element list.
RECURSIVE OptionalComponents(_)
OptionalComponents(parsed_lines) ==
    IF parsed_lines = <<>> THEN <<>>
    ELSE LET parsed == Head(parsed_lines)
         IN  (IF "optional_choices" \in DOMAIN parsed
              THEN <<parsed["optional_choices"]>> ELSE <<>>)
             \o (IF "optional" \in DOMAIN parsed THEN <<(<<parsed["optional"]>>)>> ELSE <<>>)
             \o OptionalComponents(Tail(parsed_lines))

\* [parse_bnf_line(line) for line in lines], the empty results dropped
ParsedLines(syntax_block) ==
    LET lines == SplitOn(syntax_block, "\n")
        NonEmpty(parsed) == parsed # EmptyDict
    IN  SelectSeq([i \in 1..Len(lines) |-> parse_bnf_line(lines[i])], NonEmpty)

\* The dict convert_statement_syntax returns, from the sets and the list it
\* has gathered: a key is set only when its collection is not empty.
SyntaxStructure(syntax_block, all_variables, all_keywords, optional_components) ==
    LET present == {"syntax", "components"}
                   \cup (IF all_variables # {} THEN {"variables"} ELSE {})
                   \cup (IF all_keywords # {} THEN {"keywords"} ELSE {})
                   \cup (IF optional_components # <<>> THEN {"optional"} ELSE {})
    IN  [key \in present |->
            CASE key = "syntax" -> syntax_block
              [] key = "components" -> EmptyDict
              [] key = "variables" -> SortedList(all_variables)
              [] key = "keywords" -> SortedList(all_keywords)
              [] key = "optional" -> optional_components]

GatheredStructure(syntax_block, parsed_lines) ==
    SyntaxStructure(syntax_block, UnionOf(parsed_lines, "variables"),
                    UnionOf(parsed_lines, "keywords"), OptionalComponents(parsed_lines))

\* A convert_statement_syntax that gathers from the first parsed line only.
convert_statement_syntax_first_line(syntax_block) ==
    GatheredStructure(syntax_block, SubSeq(ParsedLines(syntax_block), 1, 1))

convert_statement_syntax(syntax_block) ==
    GatheredStructure(syntax_block, ParsedLines(syntax_block))

\* A process_statements that converts the blocks of a statement together:
\* every variant is built from all the blocks joined.
StatementRecordMerged(data) ==
    LET blocks == data.syntax_blocks
        rec == IF Len(blocks) = 1
               THEN convert_statement_syntax(blocks[1])
               ELSE [variants |-> [i \in 1..Len(blocks) |->
                        DictSet(convert_statement_syntax(Join(blocks, "\n")),
                                "syntax", blocks[i])]]
    IN  DictSet(rec, "metadata",
                [title |-> data.title, description |-> data.description,
                 sidebar_label |-> data.sidebar_label])

\* A process_statements that attaches the metadata to every variant rather
\* than to the statement.
StatementRecordMetadataInVariants(data) ==
    LET blocks == data.syntax_blocks
        metadata == [title |-> data.title, description |-> data.description,
                     sidebar_label |-> data.sidebar_label]
    IN  IF Len(blocks) = 1
        THEN DictSet(convert_statement_syntax(blocks[1]), "metadata", metadata)
        ELSE [variants |-> [i \in 1..Len(blocks) |->
                 DictSet(convert_statement_syntax(blocks[i]), "metadata", metadata)]]

\* current[statement_name] as process_statements leaves it for one item.
StatementRecord(data) ==
    LET blocks == data.syntax_blocks
        rec == IF Len(blocks) = 1
               THEN convert_statement_syntax(blocks[1])
               ELSE [variants |-> [i \in 1..Len(blocks) |->
                                      convert_statement_syntax(blocks[i])]]
    IN  DictSet(rec, "metadata",
                [title |-> data.title, description |-> data.description,
                 sidebar_label |-> data.sidebar_label])

\* The walk down path_parts[1:-1], creating the missing dicts, and the
\* assignment of value under path_parts[-1]; parts is path_parts[1:].
RECURSIVE TreeSet(_, _, _)
TreeSet(current, parts, value) ==
    IF Len(parts) = 1 THEN DictSet(current, parts[1], value)
    ELSE LET child == IF parts[1] \in DOMAIN current THEN current[parts[1]]
                      ELSE EmptyDict
         IN  DictSet(current, parts[1], TreeSet(child, Tail(parts), value))

\* The loop of process_statements over raw_data.items().
RECURSIVE ProcessLoop(_, _)
ProcessLoop(items, statements) ==
    IF items = <<>> THEN statements
    ELSE LET hierarchy == Head(items).hierarchy
             path_parts == SplitOn(hierarchy, ".")
         IN  ProcessLoop(Tail(items),
                 IF ~StartsWith(hierarchy, "statements.") THEN statements
                 ELSE TreeSet(statements, Tail(path_parts),
                              StatementRecord(Head(items).data)))

\* A process_statements that never replaces a record: a statement whose
\* name is taken already is filed once more, under the name with a "_" added.
RECURSIVE TreeAdd(_, _, _)
TreeAdd(current, parts, value) ==
    IF Len(parts) = 1
    THEN DictSet(current,
                 IF parts[1] \in DOMAIN current THEN parts[1] \o "_" ELSE parts[1],
                 value)
    ELSE LET child == IF parts[1] \in DOMAIN current THEN current[parts[1]]
                      ELSE EmptyDict
         IN  DictSet(current, parts[1], TreeAdd(child, Tail(parts), value))

RECURSIVE process_statements_adding(_, _)
process_statements_adding(items, statements) ==
    IF items = <<>> THEN statements
    ELSE LET hierarchy == Head(items).hierarchy
         IN  process_statements_adding(Tail(items),
                 IF ~StartsWith(hierarchy, "statements.") THEN statements
                 ELSE TreeAdd(statements, Tail(SplitOn(hierarchy, ".")),
                              StatementRecord(Head(items).data)))

process_statements(items, statements) == ProcessLoop(items, statements)

\* The trees estimate_token_count walks: a dict is the list of its items in
\* order, a list the list of its elements, and a scalar its text str(obj).
DictOf(items) == [kind |-> "dict", items |-> items]
ListOf(elements) == [kind |-> "list", items |-> elements]
Scalar(text) == [kind |-> "scalar", text |-> text]
Item(key, value) == [key |-> key, value |-> value]

\* sum(numbers)
RECURSIVE Sum(_)
Sum(numbers) == IF numbers = <<>> THEN 0 ELSE Head(numbers) + Sum(Tail(numbers))

\* An estimate_token_count that takes a container for one token, whatever
\* it holds.
estimate_token_count_flat(obj) ==
    IF obj.kind = "scalar" THEN Len(SplitWS(obj.text)) ELSE 1

RECURSIVE estimate_token_count(_)
estimate_token_count(obj) ==
    IF obj.kind = "dict"
    THEN Sum([i \in 1..Len(obj.items) |->
                 Len(SplitWS(obj.items[i].key)) + 1
                     + estimate_token_count(obj.items[i].value)])
    ELSE IF obj.kind = "list"
    THEN Sum([i \in 1..Len(obj.items) |-> estimate_token_count(obj.items[i])])
    ELSE Len(SplitWS(obj.text))

(***************************************************************************)
(* TypeCompressor                                                          *)
(***************************************************************************)
type_map ==
    [t \in {"array", "string", "number", "bool", "object", "any", "duration",
            "datetime", "record", "geometry", "uuid", "int", "float", "value",
            "null", "bytes"} |->
        CASE t = "array" -> "a"   [] t = "string" -> "s"   [] t = "number" -> "n"
          [] t = "bool" -> "b"    [] t = "object" -> "o"   [] t = "any" -> "*"
          [] t = "duration" -> "d" [] t = "datetime" -> "t" [] t = "record" -> "r"
          [] t = "geometry" -> "g" [] t = "uuid" -> "u"    [] t = "int" -> "i"
          [] t = "float" -> "f"   [] t = "value" -> "v"    [] t = "null" -> "0"
          [] t = "bytes" -> "y"]

\* re.search(prefix + r'(.+)>', s).group(1), or None when there is no match:
\* the leftmost start of prefix after which a '>' follows at least one
\* character later on the same line; (.+) is greedy, so it runs to the last
\* such '>'.
ReSearchInner(prefix, s) ==
    LET L == Len(prefix)
        LineEnd(p) ==
            IF \E k \in (p+L)..Len(s) : At(s, k) = "\n"
            THEN (CHOOSE k \in (p+L)..Len(s) :
                    At(s, k) = "\n" /\ \A j \in (p+L)..(k-1) : At(s, j) # "\n") - 1
            ELSE Len(s)
        Closers(p) == {q \in (p+L+1)..LineEnd(p) : At(s, q) = ">"}
        Starts == {p \in 1..(Len(s) - L + 1) :
                      SubSeq(s, p, p+L-1) = prefix /\ Closers(p) # {}}
    IN  IF Starts = {} THEN None
        ELSE LET p == CHOOSE x \in Starts : \A y \in Starts : x <= y
                 q == CHOOSE x \in Closers(p) : \A y \in Closers(p) : x >= y
             IN  SubSeq(s, p+L, q-1)

\* A compress_type that closes what array<T> and option<T> open: 'a(' code
\* of T ')' and '?(' code of T ')'.
RECURSIVE compress_type_bracketed(_)
compress_type_bracketed(t) ==
    IF t = None \/ t = "" THEN "*"
    ELSE LET type_lower == lower(t)
             inner_a == ReSearchInner("array<", type_lower)
             inner_o == ReSearchInner("option<", type_lower)
         IN  IF StartsWith(type_lower, "array<") /\ inner_a # None
             THEN "a(" \o compress_type_bracketed(inner_a) \o ")"
             ELSE IF StartsWith(type_lower, "option<") /\ inner_o # None
             THEN "?(" \o compress_type_bracketed(inner_o) \o ")"
             ELSE DictGet(type_map, type_lower, "*")

\* A compress_type that writes the wrappers as the input does: 'a<' code of
\* T '>' and '?<' code of T '>'.
RECURSIVE compress_type_generic(_)
compress_type_generic(t) ==
    IF t = None \/ t = "" THEN "*"
    ELSE LET type_lower == lower(t)
             inner_a == ReSearchInner("array<", type_lower)
             inner_o == ReSearchInner("option<", type_lower)
         IN  IF StartsWith(type_lower, "array<") /\ inner_a # None
             THEN "a<" \o compress_type_generic(inner_a) \o ">"
             ELSE IF StartsWith(type_lower, "option<") /\ inner_o # None
             THEN "?<" \o compress_type_generic(inner_o) \o ">"
             ELSE DictGet(type_map, type_lower, "*")

RECURSIVE compress_type(_)
compress_type(t) ==
    IF t = None \/ t = "" THEN "*"
    ELSE LET type_lower == lower(t)
             inner_a == ReSearchInner("array<", type_lower)
             inner_o == ReSearchInner("option<", type_lower)
         IN  IF StartsWith(type_lower, "array<") /\ inner_a # None
             THEN "a" \o compress_type(inner_a)
             ELSE IF StartsWith(type_lower, "option<") /\ inner_o # None
             THEN "?" \o compress_type(inner_o)
             ELSE DictGet(type_map, type_lower, "*")

(***************************************************************************)
(* FunctionSignatureParser                                                 *)
(***************************************************************************)
\* _split_params: the loop over the characters of params_str, then the
\* trailing append of a non-empty current.
RECURSIVE SplitParamsLoop(_, _, _, _)
SplitParamsLoop(rest, params, current, depth) ==
    IF rest = ""
    THEN IF current # "" THEN Append(params, strip(current)) ELSE params
    ELSE LET char == Head(rest)
         IN  IF char = "," /\ depth = 0
             THEN SplitParamsLoop(Tail(rest), Append(params, strip(current)), "", depth)
             ELSE SplitParamsLoop(Tail(rest), params, current \o char,
                      IF Contains("([{<", char) THEN depth + 1
                      ELSE IF Contains(")]}>", char) THEN depth - 1
                      ELSE depth)

\* A _split_params that forgets the depth counter: str.split(',') and strip.
split_params_every_comma(params_str) ==
    LET parts == SplitOn(params_str, ",")
    IN  [i \in 1..Len(parts) |-> strip(parts[i])]

_split_params(params_str) == SplitParamsLoop(params_str, <<>>, "", 0)

\* One element of param_parts, already stripped and non-empty, as the dict
\* appended to parameters.
ParamDict(param) ==
    IF Contains(param, ":")
    THEN LET i == IndexIn(":", param)
         IN  [name |-> strip(SubSeq(param, 1, i - 1)),
              type |-> strip(SubSeq(param, i + 1, Len(param)))]
    ELSE [type |-> param]

RECURSIVE ParamDicts(_)
ParamDicts(parts) ==
    IF parts = <<>> THEN <<>>
    ELSE LET param == strip(Head(parts))
         IN  (IF param # "" THEN <<ParamDict(param)>> ELSE <<>>) \o ParamDicts(Tail(parts))

\* The length of the longest prefix of s made of [a-z_].
IdentLen(s) == RunLen(s, "[a-z_]")

\* (?:\s*->\s*(.+))?$ against the text after the closing parenthesis:
\* [ok, ret], ret = None when the optional group took nothing.  '.' matches
\* no newline, so the return text holds none.
MatchTail(rest) ==
    IF rest = "" THEN [ok |-> TRUE, ret |-> None]
    ELSE LET r1 == lstrip(rest)
             r2 == IF StartsWith(r1, "->") THEN lstrip(SubSeq(r1, 3, Len(r1))) ELSE ""
         IN  IF StartsWith(r1, "->") /\ r2 # "" /\ ~Contains(r2, "\n")
             THEN [ok |-> TRUE, ret |-> r2]
             ELSE [ok |-> FALSE, ret |-> None]

\* re.match(r'^([a-z_]+)::([a-z_]+)\((.*?)\)(?:\s*->\s*(.+))?$', s): the groups,
\* or NoneObj.  (.*?) is lazy: it ends at the first ')' after which the
\* rest of the pattern matches.
MatchSignature(s) ==
    LET n1 == IdentLen(s)
        s2 == SubSeq(s, n1 + 3, Len(s))
        n2 == IdentLen(s2)
        s3 == SubSeq(s2, n2 + 2, Len(s2))
        Ends == {q \in 1..Len(s3) :
                    /\ At(s3, q) = ")"
                    /\ ~Contains(SubSeq(s3, 1, q - 1), "\n")
                    /\ MatchTail(SubSeq(s3, q + 1, Len(s3))).ok}
    IN  IF /\ n1 >= 1
           /\ Len(s) >= n1 + 2 /\ SubSeq(s, n1 + 1, n1 + 2) = "::"
           /\ n2 >= 1
           /\ Len(s2) >= n2 + 1 /\ At(s2, n2 + 1) = "("
           /\ Ends # {}
        THEN LET q == CHOOSE x \in Ends : \A y \in Ends : x <= y
             IN  [namespace |-> SubSeq(s, 1, n1),
                  function_name |-> SubSeq(s2, 1, n2),
                  params_str |-> SubSeq(s3, 1, q - 1),
                  return_type |-> MatchTail(SubSeq(s3, q + 1, Len(s3))).ret]
        ELSE NoneObj

parse_function_signature(sig) ==
    LET match == MatchSignature(strip(sig))
    IN  IF match = NoneObj THEN NoneObj
        ELSE [raw |-> sig,
              namespace |-> match.namespace,
              function |-> match.function_name,
              parameters |-> IF match.params_str # ""
                             THEN ParamDicts(_split_params(match.params_str))
                             ELSE <<>>,
              return_type |-> IF match.return_type # None
                              THEN strip(match.return_type) ELSE None]

\* extract_api_definition_blocks from the re.findall result on: the loop over
\* matches, which appends every sig that is truthy (a dict with keys is).
RECURSIVE SignaturesLoop(_, _)
SignaturesLoop(matches, signatures) ==
    IF matches = <<>> THEN signatures
    ELSE LET sig == parse_function_signature(strip(Head(matches)))
         IN  SignaturesLoop(Tail(matches),
                 IF sig # NoneObj THEN Append(signatures, sig) ELSE signatures)

\* An extraction that gives up at the first signature that does not parse.
RECURSIVE signatures_until_no_match(_)
signatures_until_no_match(matches) ==
    IF matches = <<>> THEN <<>>
    ELSE LET sig == parse_function_signature(strip(Head(matches)))
         IN  IF sig = NoneObj THEN <<>>
             ELSE <<sig>> \o signatures_until_no_match(Tail(matches))

extract_api_definition_blocks(matches) == SignaturesLoop(matches, <<>>)

(***************************************************************************)
(* UltraCompressedConverter (converter_v3.py). raw_data holds each JSON    *)
(* object as the list of its (key, value) entries in insertion order; the  *)
(* schema trees under construction are TLA+ functions on their keys.       *)
(***************************************************************************)
\* not d.get(key) for a key that holds a list: missing or empty
LacksList(d, key) == key \notin DOMAIN d \/ d[key] = <<>>

\* not d.get(key) for a key that holds a str: missing, null or empty
LacksStr(d, key) == key \notin DOMAIN d \/ d[key] = None \/ d[key] = ""

\* the loop "for k in keywords: if k not in essential and len(essential) < 3"
RECURSIVE EssentialLoop(_, _)
EssentialLoop(keywords, essential) ==
    IF keywords = <<>> THEN essential
    ELSE LET k == Head(keywords)
         IN  EssentialLoop(Tail(keywords),
                 IF k \notin Range(essential) /\ Len(essential) < 3
                 THEN Append(essential, k) ELSE essential)

\* keywords after the loop over syntax.split('\n')[:3]
RECURSIVE HeadKeywords(_)
HeadKeywords(lines) ==
    IF lines = <<>> THEN <<>>
    ELSE FindUpperWords(Head(lines)) \o HeadKeywords(Tail(lines))

\* A compress_statement that gives up on a statement with several blocks.
compress_statement_single_block(stmt_name, stmt_data) ==
    IF LacksList(stmt_data, "syntax") \/ Len(stmt_data["syntax"]) > 1 THEN NoneObj
    ELSE [k |-> EssentialLoop(
                    HeadKeywords(Prefix(SplitOn(stmt_data["syntax"][1], "\n"), 3)), <<>>)]

compress_statement(stmt_name, stmt_data) ==
    IF LacksList(stmt_data, "syntax") THEN NoneObj
    ELSE LET syntax == stmt_data["syntax"][1]
             keywords == HeadKeywords(Prefix(SplitOn(syntax, "\n"), 3))
         IN  [k |-> EssentialLoop(keywords, <<>>)]

\* ''.join(parts)
RECURSIVE Concat(_)
Concat(parts) == IF parts = <<>> THEN "" ELSE Head(parts) \o Concat(Tail(parts))

\* A _compress_signature that puts the return code first.
compress_signature_return_first(sig) ==
    (IF LacksStr(sig, "return_type") THEN "*" ELSE compress_type(sig["return_type"]))
    \o ">" \o
    (IF LacksList(sig, "parameters") THEN ""
     ELSE Concat([i \in 1..Len(sig["parameters"]) |->
                    compress_type(DictGet(sig["parameters"][i], "type", "*"))]))

_compress_signature(sig) ==
    LET params == IF LacksList(sig, "parameters") THEN ""
                  ELSE Concat([i \in 1..Len(sig["parameters"]) |->
                          compress_type(DictGet(sig["parameters"][i], "type", "*"))])
        ret == IF LacksStr(sig, "return_type") THEN "*"
               ELSE compress_type(sig["return_type"])
    IN  Join(<<params, ret>>, ">")

\* func_groups: the function names in order of first appearance, and the
\* overloads of one name in input order
RECURSIVE GroupNames(_, _)
GroupNames(functions, seen) ==
    IF functions = <<>> THEN seen
    ELSE GroupNames(Tail(functions),
             IF Head(functions)["function"] \in Range(seen) THEN seen
             ELSE Append(seen, Head(functions)["function"]))

Overloads(functions, func_name) ==
    LET Named(func) == func["function"] = func_name
    IN  SelectSeq(functions, Named)

compress_function(namespace, functions) ==
    [func_name \in Range(GroupNames(functions, <<>>)) |->
        LET overloads == Overloads(functions, func_name)
        IN  IF Len(overloads) = 1 THEN _compress_signature(overloads[1])
            ELSE [i \in 1..Len(overloads) |-> _compress_signature(overloads[i])]]

\* A cat_ops that keeps the symbols and drops the alternatives.
operator_symbols_only(ops) == [i \in 1..Len(ops) |-> ops[i]["symbol"]]

\* cat_ops of one category
OperatorStrings(ops) ==
    [i \in 1..Len(ops) |->
        IF LacksStr(ops[i], "alternative") THEN ops[i]["symbol"]
        ELSE ops[i]["symbol"] \o "|" \o ops[i]["alternative"]]

RECURSIVE CompressOperatorsLoop(_, _)
CompressOperatorsLoop(operators, compressed) ==
    IF operators = <<>> THEN compressed
    ELSE LET category == Head(operators).key
             ops == Head(operators).value
         IN  CompressOperatorsLoop(Tail(operators),
                 IF ops = <<>> THEN compressed
                 ELSE DictSet(compressed, Prefix(category, 3), OperatorStrings(ops)))

compress_operators(operators) == CompressOperatorsLoop(operators, EmptyDict)

abbreviations ==
    [p \in {"select", "insert", "update", "delete", "create", "alter", "define",
            "remove", "relate", "return", "continue", "database", "namespace",
            "function", "indexes", "table"} |->
        CASE p = "continue" -> "cont" [] p = "database" -> "db"
          [] p = "namespace" -> "ns"  [] p = "function" -> "fn"
          [] p = "indexes" -> "idx"   [] p = "table" -> "tbl"
          [] OTHER -> Prefix(p, 3)]

_abbreviate_statement(stmt_name) ==
    IF Contains(stmt_name, "/")
    THEN LET parts == SplitOn(stmt_name, "/")
         IN  Join([i \in 1..Len(parts) |->
                      DictGet(abbreviations, parts[i], Prefix(parts[i], 3))], "/")
    ELSE DictGet(abbreviations, stmt_name, Prefix(stmt_name, 3))

\* raw_data.get(section, {}).items()
Section(raw, section) == DictGet(raw, section, <<>>)

\* the statements loop of convert_all, over schema['surrealql']['stmts']
RECURSIVE UltraStatementsLoop(_, _)
UltraStatementsLoop(statements, stmts) ==
    IF statements = <<>> THEN stmts
    ELSE LET compressed == compress_statement(Head(statements).key, Head(statements).value)
         IN  UltraStatementsLoop(Tail(statements),
                 IF compressed # NoneObj
                 THEN DictSet(stmts, _abbreviate_statement(Head(statements).key), compressed)
                 ELSE stmts)

\* the functions loop of convert_all, over schema['surrealql']['funcs']
RECURSIVE UltraFunctionsLoop(_, _)
UltraFunctionsLoop(functions, funcs) ==
    IF functions = <<>> THEN funcs
    ELSE LET namespace == Head(functions).key
             ns_data == Head(functions).value
             ns_key == IF Len(namespace) > 3 THEN Prefix(namespace, 3) ELSE namespace
         IN  UltraFunctionsLoop(Tail(functions),
                 IF LacksList(ns_data, "functions") THEN funcs
                 ELSE DictSet(funcs, ns_key,
                              compress_function(namespace, ns_data["functions"])))

\* UltraCompressedConverter.convert_all on self.schema['surrealql']
convert_all(raw, schema) ==
    [v |-> schema.v,
     stmts |-> UltraStatementsLoop(Section(raw, "statements"), schema.stmts),
     funcs |-> UltraFunctionsLoop(Section(raw, "functions"), schema.funcs),
     ops |-> compress_operators(Section(raw, "operators"))]

(***************************************************************************)
(* DualSchemaConverter (converter_final.py)                                *)
(***************************************************************************)
\* The order in which a Python process iterates a set of str follows the
\* hashes of its elements, which are salted anew for every process: one of
\* the orders below, fixed for the life of the process.
HashOrders == {"ascending", "descending"}

RECURSIVE Reverse(_)
Reverse(seq) == IF seq = <<>> THEN <<>> ELSE Append(Reverse(Tail(seq)), Head(seq))

\* list(S) for a set of str, in a process whose hash order is order
ListOfSet(S, order) ==
    IF order = "ascending" THEN SortedList(S) ELSE Reverse(SortedList(S))

RECURSIVE _compress_type(_)
_compress_type(t) ==
    IF t = None \/ t = "" THEN "*"
    ELSE LET type_lower == lower(t)
             inner_a == ReSearchInner("array<", type_lower)
             inner_o == ReSearchInner("option<", type_lower)
         IN  IF StartsWith(type_lower, "array<") /\ inner_a # None
             THEN "a" \o _compress_type(inner_a)
             ELSE IF StartsWith(type_lower, "option<") /\ inner_o # None
             THEN "?" \o _compress_type(inner_o)
             ELSE DictGet(type_map, type_lower, "*")

\* A _compress_signature that writes the return code alone, without '>',
\* for a function without parameters.
compress_signature_bare_return(sig) ==
    LET ret == IF LacksStr(sig, "return_type") THEN "*"
               ELSE _compress_type(sig["return_type"])
    IN  IF LacksList(sig, "parameters") THEN ret
        ELSE Join(<<Concat([i \in 1..Len(sig["parameters"]) |->
                      _compress_type(DictGet(sig["parameters"][i], "type", "*"))]), ret>>,
                  ">")

DualSchemaConverter_compress_signature(sig) ==
    LET params == IF LacksList(sig, "parameters") THEN ""
                  ELSE Concat([i \in 1..Len(sig["parameters"]) |->
                          _compress_type(DictGet(sig["parameters"][i], "type", "*"))])
        ret == IF LacksStr(sig, "return_type") THEN "*"
               ELSE _compress_type(sig["return_type"])
    IN  Join(<<params, ret>>, ">")

DualSchemaConverter_abbreviations ==
    [p \in {"select", "insert", "update", "delete", "create", "alter", "define",
            "remove"} |-> Prefix(p, 3)]

DualSchemaConverter_abbreviate_statement(stmt_name) ==
    IF Contains(stmt_name, "/")
    THEN LET parts == SplitOn(stmt_name, "/")
         IN  Join([i \in 1..Len(parts) |->
                      DictGet(DualSchemaConverter_abbreviations, parts[i],
                              Prefix(parts[i], 3))], "/")
    ELSE DictGet(DualSchemaConverter_abbreviations, stmt_name, Prefix(stmt_name, 3))

\* [line.strip() for line in syntax.split('\n') if line.strip()]
StrippedLines(syntax) ==
    LET NonBlank(l) == strip(l) # ""
        ls == SelectSeq(SplitOn(syntax, "\n"), NonBlank)
    IN  [i \in 1..Len(ls) |-> strip(ls[i])]

_parse_statement_syntax(syntax) == [raw |-> syntax, lines |-> StrippedLines(syntax)]

_extract_keywords(parsed) ==
    UNION {{m \in Range(FindUpperUnderscoreWords(parsed.lines[i])) : Len(m) > 1} :
              i \in 1..Len(parsed.lines)}

_extract_variables(parsed) ==
    UNION {Range(FindVariables(parsed.lines[i])) : i \in 1..Len(parsed.lines)}

\* re.sub(r'\[.*?\]', '', s): from each '[' to the first ']' after it on the
\* same line
RECURSIVE RemoveBracketed(_)
RemoveBracketed(s) ==
    LET open == IndexIn("[", s)
        rest == SubSeq(s, open + 1, Len(s))
        close == IndexIn("]", rest)
        eol == IndexIn("\n", rest)
    IN  IF open = 0 THEN s
        ELSE IF close > 0 /\ (eol = 0 \/ close < eol)
        THEN SubSeq(s, 1, open - 1) \o RemoveBracketed(SubSeq(rest, close + 1, Len(rest)))
        ELSE SubSeq(s, 1, open) \o RemoveBracketed(rest)

\* re.sub(r'@\w+', '<var>', s)
RECURSIVE ReplaceVariables(_)
ReplaceVariables(s) ==
    LET at == IndexIn("@", s)
        rest == SubSeq(s, at + 1, Len(s))
        n == RunLen(rest, "\\w")
    IN  IF at = 0 THEN s
        ELSE IF n > 0
        THEN SubSeq(s, 1, at - 1) \o "<var>" \o ReplaceVariables(SubSeq(rest, n + 1, Len(rest)))
        ELSE SubSeq(s, 1, at) \o ReplaceVariables(rest)

_extract_pattern(syntax) ==
    Prefix(Join(SplitWS(ReplaceVariables(RemoveBracketed(syntax))), " "), 100)

\* the statements loop of create_full_schema
RECURSIVE FullStatementsLoop(_, _, _)
FullStatementsLoop(statements, order, out) ==
    IF statements = <<>> THEN out
    ELSE LET stmt_name == Head(statements).key
             stmt_data == Head(statements).value
         IN  FullStatementsLoop(Tail(statements), order,
                 IF LacksList(stmt_data, "syntax") THEN out
                 ELSE LET syntax_blocks == stmt_data["syntax"]
                          parsed == _parse_statement_syntax(syntax_blocks[1])
                      IN  DictSet(out, stmt_name,
                              [keywords |->
                                   Prefix(ListOfSet(_extract_keywords(parsed), order), 10),
                               variables |->
                                   Prefix(ListOfSet(_extract_variables(parsed), order), 10),
                               syntax_pattern |-> _extract_pattern(syntax_blocks[1])]))

\* A create_full_schema that lists the names of the parameters, where
\* they have one, rather than their types.
FullNamespaceParamNames(functions) ==
    [func_name \in Range(GroupNames(functions, <<>>)) |->
        LET overloads == Overloads(functions, func_name)
        IN  [signatures |->
               [i \in 1..Len(overloads) |->
                  LET sig == overloads[i]
                      parameters == DictGet(sig, "parameters", <<>>)
                  IN  [pattern |-> sig["raw"],
                       params |-> [j \in 1..Len(parameters) |->
                                     DictGet(parameters[j], "name", "any")],
                       returns |-> DictGet(sig, "return_type", "any")]]]]

\* ns_functions of one namespace in create_full_schema
FullNamespace(functions) ==
    [func_name \in Range(GroupNames(functions, <<>>)) |->
        LET overloads == Overloads(functions, func_name)
        IN  [signatures |->
               [i \in 1..Len(overloads) |->
                  LET sig == overloads[i]
                      parameters == DictGet(sig, "parameters", <<>>)
                  IN  [pattern |-> sig["raw"],
                       params |-> [j \in 1..Len(parameters) |->
                                     DictGet(parameters[j], "type", "any")],
                       returns |-> DictGet(sig, "return_type", "any")]]]]

\* the functions loop of create_full_schema
RECURSIVE FullFunctionsLoop(_, _)
FullFunctionsLoop(functions, out) ==
    IF functions = <<>> THEN out
    ELSE LET ns_data == Head(functions).value
         IN  FullFunctionsLoop(Tail(functions),
                 IF LacksList(ns_data, "functions") THEN out
                 ELSE DictSet(out, Head(functions).key,
                              FullNamespace(ns_data["functions"])))

\* the operators loop of create_full_schema
RECURSIVE FullOperatorsLoop(_, _)
FullOperatorsLoop(operators, out) ==
    IF operators = <<>> THEN out
    ELSE LET ops == Head(operators).value
         IN  FullOperatorsLoop(Tail(operators),
                 IF ops = <<>> THEN out
                 ELSE DictSet(out, Head(operators).key,
                          [i \in 1..Len(ops) |->
                             [symbol |-> ops[i]["symbol"],
                              alt |-> DictGet(ops[i], "alternative", None),
                              desc |-> Prefix(ops[i]["description"], 80)]]))

\* full_schema['surrealql_schema'] as create_full_schema builds it
create_full_schema(raw, order) ==
    [version |-> "2.3.7",
     metadata |-> [coverage |-> "85%", format |-> "full",
                   description |-> "Complete schema with all context preserved"],
     statements |-> FullStatementsLoop(Section(raw, "statements"), order, EmptyDict),
     functions |-> FullFunctionsLoop(Section(raw, "functions"), EmptyDict),
     operators |-> FullOperatorsLoop(Section(raw, "operators"), EmptyDict)]

\* the statements loop of create_compressed_schema
RECURSIVE CompressedStatementsLoop(_, _)
CompressedStatementsLoop(statements, stmts) ==
    IF statements = <<>> THEN stmts
    ELSE LET stmt_name == Head(statements).key
             stmt_data == Head(statements).value
         IN  CompressedStatementsLoop(Tail(statements),
                 IF LacksList(stmt_data, "syntax") THEN stmts
                 ELSE LET key == DualSchemaConverter_abbreviate_statement(stmt_name)
                          syntax == stmt_data["syntax"][1]
                          keywords == HeadKeywords(Prefix(SplitOn(syntax, "\n"), 3))
                      IN  DictSet(stmts, key, [k |-> Prefix(keywords, 3)]))

\* the functions loop of create_compressed_schema
RECURSIVE CompressedFunctionsLoop(_, _)
CompressedFunctionsLoop(functions, funcs) ==
    IF functions = <<>> THEN funcs
    ELSE LET namespace == Head(functions).key
             ns_data == Head(functions).value
             ns_key == IF Len(namespace) > 3 THEN Prefix(namespace, 3) ELSE namespace
         IN  CompressedFunctionsLoop(Tail(functions),
                 IF LacksList(ns_data, "functions") THEN funcs
                 ELSE DictSet(funcs, ns_key,
                        [func_name \in Range(GroupNames(ns_data["functions"], <<>>)) |->
                           LET overloads == Overloads(ns_data["functions"], func_name)
                           IN  IF Len(overloads) = 1
                               THEN DualSchemaConverter_compress_signature(overloads[1])
                               ELSE [i \in 1..Len(overloads) |->
                                       DualSchemaConverter_compress_signature(overloads[i])]]))

\* compressed_schema['surrealql'] as create_compressed_schema builds it
create_compressed_schema(raw) ==
    [v |-> "2.3.7",
     stmts |-> CompressedStatementsLoop(Section(raw, "statements"), EmptyDict),
     funcs |-> CompressedFunctionsLoop(Section(raw, "functions"), EmptyDict),
     ops |-> CompressOperatorsLoop(Section(raw, "operators"), EmptyDict)]

(***************************************************************************)
(* EnhancedSchemaConverter (converter_v2.py)                               *)
(***************************************************************************)
\* re.findall(r'\[([^\]]+)\]', s): from each '[' to the first ']' after it,
\* when at least one character lies between
RECURSIVE FindBracketed(_)
FindBracketed(s) ==
    LET open == IndexIn("[", s)
        rest == SubSeq(s, open + 1, Len(s))
        close == IndexIn("]", rest)
    IN  IF open = 0 THEN <<>>
        ELSE IF close > 1
        THEN <<SubSeq(rest, 1, close - 1)>> \o FindBracketed(SubSeq(rest, close + 1, Len(rest)))
        ELSE FindBracketed(rest)

_extract_optional_parts(parsed) ==
    UNION {{strip(m) : m \in {x \in Range(FindBracketed(parsed.lines[i])) : strip(x) # ""}} :
              i \in 1..Len(parsed.lines)}

\* routes[section][key] = route, the section created when it is missing
AddRoute(routes, section, key, route) ==
    DictSet(routes, section, DictSet(DictGet(routes, section, EmptyDict), key, route))

_add_statement_route(routes, stmt_name, keywords, order) ==
    AddRoute(routes, "statements", Join(SplitOn(stmt_name, "/"), "_"),
             [keywords |-> Prefix(ListOfSet(keywords, order), 5),
              path |-> "statements." \o stmt_name])

_add_function_route(routes, namespace, function_names) ==
    AddRoute(routes, "functions", namespace,
             [keywords |-> <<namespace>> \o Prefix(function_names, 5),
              path |-> "functions." \o namespace])

_add_operator_route(routes, category, operators) ==
    AddRoute(routes, "operators", category,
             [keywords |-> Prefix(operators, 5), path |-> "operators." \o category])

\* The loop of convert_statements: the local dict statements and the routes.
RECURSIVE EnhancedStatementsLoop(_, _, _)
EnhancedStatementsLoop(items, order, acc) ==
    IF items = <<>> THEN acc
    ELSE LET stmt_name == Head(items).key
             stmt_data == Head(items).value
         IN  EnhancedStatementsLoop(Tail(items), order,
                 IF LacksList(stmt_data, "syntax") THEN acc
                 ELSE LET parsed == _parse_statement_syntax(stmt_data["syntax"][1])
                          keywords == _extract_keywords(parsed)
                      IN  [statements |->
                               DictSet(acc.statements, stmt_name,
                                   [keywords |-> ListOfSet(keywords, order),
                                    variables |-> ListOfSet(_extract_variables(parsed), order),
                                    optional |->
                                        ListOfSet(_extract_optional_parts(parsed), order)]),
                           routes |-> _add_statement_route(acc.routes, stmt_name,
                                                           keywords, order)])

\* [statements |-> schema[...]['statements'], routes |-> the routes] after
\* convert_statements
convert_statements(raw, order, routes) ==
    EnhancedStatementsLoop(Section(raw, "statements"), order,
                           [statements |-> EmptyDict, routes |-> routes])

\* ns_functions of one namespace in convert_functions
EnhancedNamespace(functions) ==
    [func_name \in Range(GroupNames(functions, <<>>)) |->
        LET overloads == Overloads(functions, func_name)
        IN  [signatures |->
               [i \in 1..Len(overloads) |->
                  LET overload == overloads[i]
                      pattern == [pattern |-> overload["raw"]]
                      with_params ==
                          IF LacksList(overload, "parameters") THEN pattern
                          ELSE DictSet(pattern, "params",
                                  [j \in 1..Len(overload["parameters"]) |->
                                     [type |-> DictGet(overload["parameters"][j],
                                                       "type", "any")]])
                  IN  IF LacksStr(overload, "return_type") THEN with_params
                      ELSE DictSet(with_params, "returns", overload["return_type"])]]]

RECURSIVE EnhancedFunctionsLoop(_, _)
EnhancedFunctionsLoop(items, acc) ==
    IF items = <<>> THEN acc
    ELSE LET namespace == Head(items).key
             ns_data == Head(items).value
         IN  EnhancedFunctionsLoop(Tail(items),
                 IF LacksList(ns_data, "functions") THEN acc
                 ELSE [functions |-> DictSet(acc.functions, namespace,
                                             EnhancedNamespace(ns_data["functions"])),
                       routes |-> _add_function_route(acc.routes, namespace,
                                      GroupNames(ns_data["functions"], <<>>))])

convert_functions(raw, routes) ==
    EnhancedFunctionsLoop(Section(raw, "functions"),
                          [functions |-> EmptyDict, routes |-> routes])

\* operators[category] of convert_operators
EnhancedOperator(op) ==
    LET op_info == [symbol |-> op["symbol"], description |-> Prefix(op["description"], 100)]
    IN  IF LacksStr(op, "alternative") THEN op_info
        ELSE DictSet(op_info, "alternative", op["alternative"])

RECURSIVE EnhancedOperatorsLoop(_, _)
EnhancedOperatorsLoop(items, acc) ==
    IF items = <<>> THEN acc
    ELSE LET category == Head(items).key
             ops == Head(items).value
         IN  EnhancedOperatorsLoop(Tail(items),
                 IF ops = <<>> THEN acc
                 ELSE [operators |-> DictSet(acc.operators, category,
                                        [i \in 1..Len(ops) |-> EnhancedOperator(ops[i])]),
                       routes |-> _add_operator_route(acc.routes, category,
                                      [i \in 1..Len(ops) |-> ops[i]["symbol"]])])

convert_operators(raw, routes) ==
    EnhancedOperatorsLoop(Section(raw, "operators"),
                          [operators |-> EmptyDict, routes |-> routes])

\* EnhancedSchemaConverter.convert_all: schema['surrealql_schema_enhanced']
\* and intent_router[...]['routes'] after the three conversions
EnhancedSchemaConverter_convert_all(raw, order, schema, routes) ==
    LET s == convert_statements(raw, order, routes)
        f == convert_functions(raw, s.routes)
        o == convert_operators(raw, f.routes)
    IN  [schema |-> DictSet(DictSet(DictSet(schema, "statements", s.statements),
                                    "functions", f.functions),
                            "operators", o.operators),
         routes |-> o.routes]

(***************************************************************************)
(* Inputs of the TypeCompressor: table names, unknown names and mixed case *)
(* wrapped up to MaxTypeDepth times in array<>, option<>, with and without *)
(* text after the closing '>'.                                             *)
(***************************************************************************)
MaxTypeDepth == 2

BaseTypes == {"", "int", "array", "value", "any", "String", "foo", "record"}

RECURSIVE TypeStringsD(_)
TypeStringsD(d) ==
    IF d = 0 THEN BaseTypes
    ELSE LET S == TypeStringsD(d - 1)
         IN  S \cup {"array<" \o t \o ">" : t \in S}
               \cup {"option<" \o t \o ">" : t \in S}
               \cup {"Array<" \o t \o "> | none" : t \in S}
               \cup {"option<" \o t : t \in S}

TypeStrings == TypeStringsD(MaxTypeDepth) \cup {None}

(***************************************************************************)
(* Inputs of the FunctionSignatureParser: signatures written out from a    *)
(* namespace, a function name, up to MaxParams parameters and an optional  *)
(* return type, in the two spacings the documentation uses.                *)
(***************************************************************************)
MaxParams == 2

SigNamespaces == {"array", "type"}
SigFunctions == {"add", "is_in"}
\* name = None: a bare parameter
SigParams == {[name |-> None, type |-> "array"],
              [name |-> None, type |-> "value"],
              [name |-> "arr", type |-> "array<string>"],
              [name |-> None, type |-> "object<a, b>"],
              [name |-> "r", type |-> "record(user)"]}
SigReturns == {None, "array", "array<option<int>>"}
SigStyles == {"spaced", "tight"}

RECURSIVE SeqsUpTo(_, _)
SeqsUpTo(S, n) ==
    IF n = 0 THEN {<<>>}
    ELSE LET R == SeqsUpTo(S, n - 1)
         IN  R \cup {Append(r, x) : r \in {q \in R : Len(q) = n - 1}, x \in S}

FormatParam(p, style) ==
    IF p.name = None THEN p.type
    ELSE p.name \o (IF style = "spaced" THEN ": " ELSE ":") \o p.type

RECURSIVE FormatParams(_, _)
FormatParams(ps, style) ==
    IF ps = <<>> THEN ""
    ELSE FormatParam(Head(ps), style)
         \o (IF Len(ps) = 1 THEN ""
             ELSE (IF style = "spaced" THEN ", " ELSE " ,") \o FormatParams(Tail(ps), style))

FormatSignature(ns, fn, ps, ret, style) ==
    ns \o "::" \o fn \o "(" \o FormatParams(ps, style) \o ")"
       \o (IF ret = None THEN ""
           ELSE (IF style = "spaced" THEN " -> " ELSE "->") \o ret)

\* The dict parse_function_signature is expected to build for one parameter.
ExpectedParam(p) == IF p.name = None THEN [type |-> p.type] ELSE p

\* Every input signature with the fields it was written from.
SigTable ==
    {[text |-> FormatSignature(ns, fn, ps, ret, style),
      namespace |-> ns, function |-> fn,
      parameters |-> [i \in 1..Len(ps) |-> ExpectedParam(ps[i])],
      return_type |-> ret] :
        ns \in SigNamespaces, fn \in SigFunctions,
        ps \in SeqsUpTo(SigParams, MaxParams), ret \in SigReturns,
        style \in SigStyles}

Signatures == {e.text : e \in SigTable}

SigInit == signature \in Signatures /\ parsed_sig = NotRun /\ SplitIdle /\ ApiIdle

\* parse_function_signature(signature) is called and returns.
ParseFunctionSignature ==
    /\ parsed_sig = NotRun
    /\ parsed_sig' = parse_function_signature(signature)
    /\ UNCHANGED <<signature, split_input, split_parts, api_matches, api_signatures>>
    /\ UNCHANGED <<typeVars, lineVars, bnfVars, pipeVars, patternVars, estimateVars>>

SigNext == ParseFunctionSignature

(***************************************************************************)
(* Inputs of the GrammarLineParser: lines of up to MaxLineTokens tokens    *)
(* (keywords, variables, optional spans with and without choices).         *)
(***************************************************************************)
MaxLineTokens == 2

LineTokens == {"SELECT", "@what", "[ ONLY ]", "[A | B]", "[ C|@d | ]", "[@a | @b]",
               "[ @x ]", "[WHERE @c [ASC | DESC]]", "AS", "[ WHERE ]", ""}

RECURSIVE LinesOf(_)
LinesOf(n) ==
    IF n = 1 THEN LineTokens
    ELSE LET R == LinesOf(n - 1) IN R \cup {r \o " " \o t : r \in R, t \in LineTokens}

Lines == LinesOf(MaxLineTokens)

LineInit == bnf_line \in Lines /\ parsed_line = NotRun

\* parse_bnf_line(bnf_line) is called and returns.
ParseBnfLine ==
    /\ parsed_line = NotRun
    /\ parsed_line' = parse_bnf_line(bnf_line)
    /\ UNCHANGED <<bnf_line, typeVars, sigVars, bnfVars, pipeVars, patternVars, estimateVars>>

LineNext == ParseBnfLine

(***************************************************************************)
(* Inputs of BNFToYAMLConverter: up to MaxBnfFiles extracted files with    *)
(* distinct hierarchies (one of them on the path of another), each with    *)
(* zero to two syntax blocks.                                              *)
(***************************************************************************)
MaxBnfFiles == 2
MaxBnfCalls == 2

BlockSelect == "SELECT [ VALUE ] @fields\n  FROM [ ONLY ] @targets"
BlockLive == "LIVE SELECT DIFF\n[ WHERE @cond | FETCH @f ]"
BlockDefine == "DEFINE TABLE [ OVERWRITE | IF NOT EXISTS ] @name"
BlockThen == "IF @cond THEN @then\nELSE @else\nEND IF @cond"
BlockBare == "[ ONLY ]"

BnfBlockLists == {<<>>, <<BlockSelect>>, <<BlockSelect, BlockLive>>,
                  <<BlockSelect, BlockDefine>>, <<BlockDefine, BlockLive>>,
                  <<BlockThen, BlockBare>>}

BnfHierarchies == {"statements.select", "statements.define.table", "statements.define",
                   "functions.array"}

BnfItems ==
    {[hierarchy |-> h,
      data |-> [syntax_blocks |-> b, title |-> "T", description |-> "about " \o h,
                sidebar_label |-> ""]] :
        h \in BnfHierarchies, b \in BnfBlockLists}

\* dict items: no key twice
DistinctKeys(items) ==
    \A i, j \in 1..Len(items) : i # j => items[i].hierarchy # items[j].hierarchy

BnfRawInputs == {r \in SeqsUpTo(BnfItems, MaxBnfFiles) : DistinctKeys(r)}

BnfInit == bnf_raw \in BnfRawInputs /\ bnf_schema = EmptyDict /\ bnf_calls = 0

\* process_statements() is called and returns.
ProcessStatements ==
    /\ bnf_calls < MaxBnfCalls
    /\ bnf_schema' = process_statements(bnf_raw, bnf_schema)
    /\ bnf_calls' = bnf_calls + 1
    /\ UNCHANGED <<bnf_raw, typeVars, sigVars, lineVars, pipeVars, patternVars, estimateVars>>

BnfNext == ProcessStatements

(***************************************************************************)
(* Inputs that do not parse: API DEFINITION blocks that are no signature   *)
(* among ones that are, up to MaxApiBlocks per file, and blank or broken   *)
(* grammar lines.                                                          *)
(***************************************************************************)
MaxApiBlocks == 2

\* wellformed: whether the text is ns::name(params) [-> return_type]
ApiTable ==
    {[text |-> "array::add(array, value) -> array", wellformed |-> TRUE],
     [text |-> "type::is_in(r: record(user))", wellformed |-> TRUE],
     [text |-> "Array::add(array)", wellformed |-> FALSE],
     [text |-> "array:add(array)", wellformed |-> FALSE],
     [text |-> "array::add array", wellformed |-> FALSE],
     [text |-> "array::add(array) ->", wellformed |-> FALSE],
     [text |-> "array::add(array) array", wellformed |-> FALSE],
     [text |-> "array::add(array)\ntype::is_in(value)", wellformed |-> FALSE],
     [text |-> "", wellformed |-> FALSE]}

ApiBlocks == {e.text : e \in ApiTable}

ApiMatchLists == SeqsUpTo(ApiBlocks, MaxApiBlocks)

BrokenLines == {"", "   ", "\t", "[", "]", "[ | ]", "[]", "@", "[[ ]]", "SELECT [ ONLY",
                "| |", "[ @ | ]"}

MalformedInit ==
    /\ api_matches \in ApiMatchLists /\ api_signatures = NotRun
    /\ bnf_line \in BrokenLines /\ parsed_line = NotRun
    /\ ParseIdle /\ SplitIdle

\* extract_api_definition_blocks is called on a file with these blocks and
\* returns.
ExtractApiDefinitionBlocks ==
    /\ api_signatures = NotRun
    /\ api_signatures' = Returned(extract_api_definition_blocks(api_matches))
    /\ UNCHANGED <<signature, parsed_sig, split_input, split_parts, api_matches>>
    /\ UNCHANGED <<typeVars, lineVars, bnfVars, pipeVars, patternVars, estimateVars>>

MalformedNext == ExtractApiDefinitionBlocks \/ ParseBnfLine

MalformedStart == MalformedInit /\ TypeIdle /\ BnfIdle /\ PipeIdle /\ ToolsIdle

SpecMalformed == MalformedStart /\ [][MalformedNext]_vars

(***************************************************************************)
(* Inputs of _split_params: parameter strings of up to MaxSplitTokens       *)
(* pieces: names, commas, blanks, openers and closers, matched or not.      *)
(***************************************************************************)
MaxSplitTokens == 3

SplitTokens == {"a", "b: c", ",", " ", "<", ">", "(", "]"}

RECURSIVE ParamStringsOf(_)
ParamStringsOf(n) ==
    IF n = 0 THEN {""}
    ELSE LET R == ParamStringsOf(n - 1) IN R \cup {r \o t : r \in R, t \in SplitTokens}

ParamStrings == ParamStringsOf(MaxSplitTokens)

SplitInit == split_input \in ParamStrings /\ split_parts = NotRun /\ ParseIdle /\ ApiIdle

\* _split_params(split_input) is called and returns.
SplitParams ==
    /\ split_parts = NotRun
    /\ split_parts' = Returned(_split_params(split_input))
    /\ UNCHANGED <<signature, parsed_sig, split_input, api_matches, api_signatures>>
    /\ UNCHANGED <<typeVars, lineVars, bnfVars, pipeVars, patternVars, estimateVars>>

SplitNext == SplitParams

SplitStart == SplitInit /\ TypeIdle /\ LineIdle /\ BnfIdle /\ PipeIdle /\ ToolsIdle

SpecSplit == SplitStart /\ [][SplitNext]_vars

(***************************************************************************)
(* Inputs of estimate_token_count: trees of three levels whose dicts and    *)
(* lists hold up to MaxWidth entries: scalars with no, one and several      *)
(* words, keys with no, one and two words.                                  *)
(***************************************************************************)
MaxWidth == 2

ScalarTexts == {"", "SELECT", "about statements.select", "  IF  NOT\tEXISTS\n"}
TreeKeys == {"", "keywords", "sidebar label"}

Leaves == {Scalar(text) : text \in ScalarTexts}

ItemLists(values) ==
    {items \in SeqsUpTo({Item(key, value) : key \in TreeKeys, value \in values}, MaxWidth) :
        \A i, j \in 1..Len(items) : i # j => items[i].key # items[j].key}

Branches ==
    {ListOf(elements) : elements \in SeqsUpTo(Leaves, MaxWidth)}
    \cup {DictOf(items) : items \in ItemLists(Leaves)}

Trees ==
    Leaves \cup Branches
    \cup {ListOf(<<leaf, branch>>) : leaf \in Leaves, branch \in Branches}
    \cup {DictOf(<<Item(key, branch)>>) : key \in TreeKeys, branch \in Branches}

EstimateInit == estimate_tree \in Trees /\ estimate_count = NotRun

\* estimate_token_count(estimate_tree) is called and returns.
EstimateTokenCount ==
    /\ estimate_count = NotRun
    /\ estimate_count' = [returned |-> estimate_token_count(estimate_tree)]
    /\ UNCHANGED <<estimate_tree, patternVars, typeVars, sigVars, lineVars, bnfVars,
                   pipeVars>>

EstimateNext == EstimateTokenCount

\* Only estimate_token_count is under way: the other components are idle.
EstimateStart ==
    EstimateInit /\ PatternIdle /\ TypeIdle /\ SigIdle /\ LineIdle /\ BnfIdle /\ PipeIdle

SpecEstimate == EstimateStart /\ [][EstimateNext]_vars

(***************************************************************************)
(* Inputs of _extract_pattern: syntax texts of up to MaxPatternTokens       *)
(* pieces, with variables, optional spans on one line and over two lines,  *)
(* and lines long enough for the pattern to be cut.                         *)
(***************************************************************************)
MaxPatternTokens == 3

LongLine == "DEFINE ANALYZER name TOKENIZERS blank FILTERS lowercase "

PatternTokens == {"SELECT ", "@what", "[ ONLY ]", "[ A", " B ]", "\n", "  ", LongLine}

RECURSIVE SyntaxTextsOf(_)
SyntaxTextsOf(n) ==
    IF n = 1 THEN PatternTokens
    ELSE LET R == SyntaxTextsOf(n - 1) IN R \cup {r \o t : r \in R, t \in PatternTokens}

SyntaxTexts == SyntaxTextsOf(MaxPatternTokens)

PatternInit == pattern_syntax \in SyntaxTexts /\ pattern_result = None

\* _extract_pattern(pattern_syntax) is called and returns.
ExtractPattern ==
    /\ pattern_result = None
    /\ pattern_result' = _extract_pattern(pattern_syntax)
    /\ UNCHANGED <<pattern_syntax, estimateVars, typeVars, sigVars, lineVars, bnfVars,
                   pipeVars>>

PatternNext == ExtractPattern

\* Only _extract_pattern is under way: the other components are idle.
PatternStart ==
    PatternInit /\ EstimateIdle /\ TypeIdle /\ SigIdle /\ LineIdle /\ BnfIdle /\ PipeIdle

SpecPattern == PatternStart /\ [][PatternNext]_vars

\* Only the signature parser is under way: the other components are idle.
SigStart == SigInit /\ TypeIdle /\ LineIdle /\ BnfIdle /\ PipeIdle /\ ToolsIdle

SpecSig == SigStart /\ [][SigNext]_vars

\* Only the line parser is under way: the other components are idle.
LineStart == LineInit /\ TypeIdle /\ SigIdle /\ BnfIdle /\ PipeIdle /\ ToolsIdle

SpecLine == LineStart /\ [][LineNext]_vars

\* Only the BNF converter is under way: the other components are idle.
BnfStart == BnfInit /\ TypeIdle /\ SigIdle /\ LineIdle /\ PipeIdle /\ ToolsIdle

SpecBnf == BnfStart /\ [][BnfNext]_vars

TypeInit == type_str \in TypeStrings /\ type_code = None

\* compress_type(type_str) is called and returns.
CompressType ==
    /\ type_code = None
    /\ type_code' = compress_type(type_str)
    /\ UNCHANGED <<type_str, sigVars, lineVars, bnfVars, pipeVars, patternVars, estimateVars>>

TypeNext == CompressType

\* Only the type compressor is under way: the other components are idle.
TypeStart == TypeInit /\ SigIdle /\ LineIdle /\ BnfIdle /\ PipeIdle /\ ToolsIdle

SpecType == TypeStart /\ [][TypeNext]_vars

(***************************************************************************)
(* Inputs of the converters: a raw extraction with up to MaxEntries        *)
(* statements, function namespaces or operator categories. One section     *)
(* varies at a time, the other two hold one entry each.                    *)
(***************************************************************************)
MaxEntries == 2

BlockIf == "IF @condition { @expression }\n[ ELSE IF @condition { @expression } ]"
BlockRelate == "RELATE [ ONLY ] @from\n  -> @table\n  -> @to\n  [ CONTENT @value ]"

\* extracted_syntax[key] of extractor_v2; "live" and "relate" are entries an
\* edited or foreign extraction can hold: no syntax block, no syntax key. So
\* is the namespace "function": a parameter without a type, one whose type
\* is null, no return_type.
Entry(key, value) == [key |-> key, value |-> value]

StatementEntries ==
    {Entry("define/model", [name |-> "model", syntax |-> <<BlockIf>>]),
     Entry("define/module", [name |-> "module", syntax |-> <<BlockRelate>>]),
     Entry("live", [name |-> "live", syntax |-> <<>>]),
     Entry("relate", [name |-> "relate"])}

NamespaceEntry(namespace, signatures) ==
    Entry(namespace,
          [namespace |-> namespace,
           functions |-> [i \in 1..Len(signatures) |->
                            parse_function_signature(signatures[i])]])

FunctionEntries ==
    {NamespaceEntry("array", <<"array::add(array, value) -> array">>),
     NamespaceEntry("type", <<"type::is_in(a: array<option<int>>, Foo)",
                              "type::is_in(x) -> bool", "type::len()">>),
     Entry("function",
           [namespace |-> "function",
            functions |-> <<[namespace |-> "function", function |-> "len",
                             parameters |-> <<[name |-> "x"],
                                              [name |-> "y", type |-> None]>>,
                             raw |-> "function::len(x, y)"]>>]),
     NamespaceEntry("rand", <<>>)}

OperatorEntries ==
    {Entry("logical", <<[symbol |-> "&&", description |-> "Checks whether both are truthy",
                         id |-> "and", alternative |-> "AND"],
                        [symbol |-> "!", description |-> "Negates", id |-> "not"]>>),
     Entry("comparison", <<>>)}

\* dict items: no key twice
UniqueKeys(entries) ==
    \A i, j \in 1..Len(entries) : i # j => entries[i].key # entries[j].key

Sections(pool) == {e \in SeqsUpTo(pool, MaxEntries) : UniqueKeys(e)}

DefaultStatements ==
    <<Entry("define/table", [name |-> "table", syntax |-> <<BlockDefine, BlockLive>>])>>
DefaultFunctions == <<NamespaceEntry("array", <<"array::add(array, value) -> array">>)>>
DefaultOperators == <<Entry("logical", <<[symbol |-> "!", description |-> "Negates",
                                          id |-> "not"]>>)>>

RawInputs ==
    {[statements |-> s, functions |-> DefaultFunctions, operators |-> DefaultOperators] :
        s \in Sections(StatementEntries)}
    \cup
    {[statements |-> DefaultStatements, functions |-> f, operators |-> DefaultOperators] :
        f \in Sections(FunctionEntries)}
    \cup
    {[statements |-> DefaultStatements, functions |-> DefaultFunctions, operators |-> o] :
        o \in Sections(OperatorEntries)}

\* The trees of the converters right after construction.
FreshTrees ==
    /\ ran' = {}
    /\ full_schema' = NoneObj
    /\ compressed_schema' = NoneObj
    /\ ultra_schema' = [v |-> "2.3.7", stmts |-> EmptyDict, funcs |-> EmptyDict,
                        ops |-> EmptyDict]
    /\ enhanced_schema' = [version |-> "2.3.7-85"]
    /\ intent_router' = EmptyDict

PipeInit ==
    /\ raw_data \in RawInputs
    /\ hash_order = [final |-> None, v2 |-> None]
    /\ ran = {}
    /\ full_schema = NoneObj
    /\ compressed_schema = NoneObj
    /\ ultra_schema = [v |-> "2.3.7", stmts |-> EmptyDict, funcs |-> EmptyDict,
                       ops |-> EmptyDict]
    /\ enhanced_schema = [version |-> "2.3.7-85"]
    /\ intent_router = EmptyDict
    /\ prev_run = NotRun

\* The hash order of a process is drawn when the process starts and nothing
\* shows it before the first iteration over a set, which is where it is drawn
\* here: order is the order of process p from now on.
DrawsOrder(p, order) ==
    /\ hash_order[p] \in {None, order}
    /\ hash_order' = [hash_order EXCEPT ![p] = order]

\* DualSchemaConverter.create_full_schema()
CreateFullSchema ==
    \E order \in HashOrders :
        /\ DrawsOrder("final", order)
        /\ full_schema' = create_full_schema(raw_data, order)
        /\ ran' = ran \cup {"create_full_schema"}
        /\ UNCHANGED <<raw_data, compressed_schema, ultra_schema,
                       enhanced_schema, intent_router, prev_run, otherVars>>

\* DualSchemaConverter.create_compressed_schema()
CreateCompressedSchema ==
    /\ compressed_schema' = create_compressed_schema(raw_data)
    /\ ran' = ran \cup {"create_compressed_schema"}
    /\ UNCHANGED <<raw_data, hash_order, full_schema, ultra_schema,
                   enhanced_schema, intent_router, prev_run, otherVars>>

\* A convert_all that takes the statements out of raw_data as it converts
\* them (raw_data.pop('statements')).
UltraConvertAllConsuming ==
    /\ ultra_schema' = convert_all(raw_data, ultra_schema)
    /\ ran' = ran \cup {"ultra_convert_all"}
    /\ raw_data' = [raw_data EXCEPT !.statements = <<>>]
    /\ UNCHANGED <<hash_order, full_schema, compressed_schema,
                   enhanced_schema, intent_router, prev_run, otherVars>>

\* UltraCompressedConverter.convert_all()
UltraConvertAll ==
    /\ ultra_schema' = convert_all(raw_data, ultra_schema)
    /\ ran' = ran \cup {"ultra_convert_all"}
    /\ UNCHANGED <<raw_data, hash_order, full_schema, compressed_schema,
                   enhanced_schema, intent_router, prev_run, otherVars>>

\* EnhancedSchemaConverter.convert_all()
EnhancedConvertAll ==
    \E order \in HashOrders :
        LET out == EnhancedSchemaConverter_convert_all(raw_data, order,
                                                       enhanced_schema, intent_router)
        IN  /\ DrawsOrder("v2", order)
            /\ enhanced_schema' = out.schema
            /\ intent_router' = out.routes
            /\ ran' = ran \cup {"enhanced_convert_all"}
            /\ UNCHANGED <<raw_data, full_schema, compressed_schema,
                           ultra_schema, prev_run, otherVars>>

AllConversions == {"create_full_schema", "create_compressed_schema",
                   "ultra_convert_all", "enhanced_convert_all"}

\* The pipeline is run a second time on the same raw extraction: new
\* processes, new converters; the trees of the first run are kept aside.
RunAgain ==
    /\ ran = AllConversions
    /\ prev_run = NotRun
    /\ prev_run' = [full |-> full_schema, compressed |-> compressed_schema,
                    ultra |-> ultra_schema, enhanced |-> enhanced_schema,
                    routes |-> intent_router]
    /\ hash_order' = [final |-> None, v2 |-> None]
    /\ FreshTrees
    /\ UNCHANGED <<raw_data, otherVars>>

PipeNext ==
    \/ CreateFullSchema
    \/ CreateCompressedSchema
    \/ UltraConvertAll
    \/ EnhancedConvertAll
    \/ RunAgain

\* Only the converters of the raw extraction are under way.
PipeStart == PipeInit /\ TypeIdle /\ SigIdle /\ LineIdle /\ BnfIdle /\ ToolsIdle

SpecPipe == PipeStart /\ [][PipeNext]_vars

(***************************************************************************)
(* C1: for every type string t, compress_type(t) is the reference          *)
(* encoding: case-insensitively a table name maps to its code, array<T>    *)
(* to 'a' + code(T), option<T> to '?' + code(T), and every other string    *)
(* (the empty one too) to '*'.                                             *)
(***************************************************************************)
IsWrapped(prefix, l) ==
    StartsWith(l, prefix) /\ Len(l) > Len(prefix) + 1 /\ At(l, Len(l)) = ">"

RECURSIVE ReferenceEncode(_)
ReferenceEncode(t) ==
    IF t = None \/ t = "" THEN "*"
    ELSE LET l == lower(t)
         IN  IF l \in DOMAIN type_map THEN type_map[l]
             ELSE IF IsWrapped("array<", l)
             THEN "a" \o ReferenceEncode(SubSeq(l, 7, Len(l) - 1))
             ELSE IF IsWrapped("option<", l)
             THEN "?" \o ReferenceEncode(SubSeq(l, 8, Len(l) - 1))
             ELSE "*"

C1_CompressTypeIsReference ==
    type_code # None => type_code = ReferenceEncode(type_str)

(***************************************************************************)
(* C2: parse_function_signature applied to a signature written as          *)
(* ns::name(params) [-> return_type] returns the namespace, the function   *)
(* name, one entry per top-level parameter in source order (name and type  *)
(* for "name: type", type alone for a bare parameter) and the trimmed      *)
(* return type, None without an arrow; array::add(array, value) -> array   *)
(* gives array, add, [{type: array}, {type: value}], array.                *)
(***************************************************************************)
C2_ParseRoundTrip ==
    parsed_sig # NotRun =>
        /\ \A e \in SigTable :
              e.text = signature =>
                  /\ parsed_sig # NoneObj
                  /\ parsed_sig.namespace = e.namespace
                  /\ parsed_sig.function = e.function
                  /\ parsed_sig.parameters = e.parameters
                  /\ parsed_sig.return_type = e.return_type
        /\ signature = "array::add(array, value) -> array" =>
              /\ parsed_sig.namespace = "array"
              /\ parsed_sig.function = "add"
              /\ parsed_sig.parameters = <<[type |-> "array"], [type |-> "value"]>>
              /\ parsed_sig.return_type = "array"

C2_Witness ==
    /\ signature = "array::add(arr: array<string>, object<a, b>) -> array"
    /\ parsed_sig # NotRun
    /\ parsed_sig # NoneObj
    /\ Len(parsed_sig.parameters) = 2

(***************************************************************************)
(* C3: for every parsed function signature the ultra-tier string is the    *)
(* codes of the parameter types in order, then '>', then the code of the   *)
(* return type ('*' when there is none, nothing before '>' when there are  *)
(* no parameters); a function with one signature holds that string, one    *)
(* with several holds the list of them; array::add(array, value) -> array  *)
(* is "av>a" under funcs['arr']['add'].                                    *)
(***************************************************************************)
\* A type or a return type that the signature lacks counts as absent.
ExpectedSignature(sig) ==
    Concat([i \in 1..Len(sig.parameters) |->
               IF "type" \in DOMAIN sig.parameters[i]
               THEN compress_type(sig.parameters[i].type) ELSE "*"])
    \o ">" \o
    (IF DictGet(sig, "return_type", None) = None THEN "*"
     ELSE compress_type(sig.return_type))

ExpectedFunction(signatures) ==
    IF Len(signatures) = 1 THEN ExpectedSignature(signatures[1])
    ELSE [i \in 1..Len(signatures) |-> ExpectedSignature(signatures[i])]

\* The namespaces of the input that have functions and share their ultra key
\* with no other namespace.
OwnNamespaces ==
    {i \in 1..Len(raw_data.functions) :
        /\ raw_data.functions[i].value.functions # <<>>
        /\ \A j \in 1..Len(raw_data.functions) :
              j # i => Prefix(raw_data.functions[j].key, 3)
                         # Prefix(raw_data.functions[i].key, 3)}

FuncsAsExpected(funcs) ==
    \A i \in OwnNamespaces :
        LET functions == raw_data.functions[i].value.functions
            ns_key == Prefix(raw_data.functions[i].key, 3)
        IN  /\ ns_key \in DOMAIN funcs
            /\ DOMAIN funcs[ns_key] = {functions[n].function : n \in 1..Len(functions)}
            /\ \A name \in DOMAIN funcs[ns_key] :
                  funcs[ns_key][name] = ExpectedFunction(Overloads(functions, name))

C3_SignatureIsCodes ==
    /\ "ultra_convert_all" \in ran => FuncsAsExpected(ultra_schema.funcs)
    /\ "create_compressed_schema" \in ran => FuncsAsExpected(compressed_schema.funcs)
    /\ _compress_signature(
           parse_function_signature("array::add(array, value) -> array")) = "av>a"

C3_Witness ==
    /\ {"ultra_convert_all", "create_compressed_schema"} \subseteq ran
    /\ Len(raw_data.functions) = 2
    /\ raw_data.functions[1].key = "array"
    /\ raw_data.functions[2].key = "type"
    /\ ultra_schema.funcs["arr"]["add"] = "av>a"
    /\ compressed_schema.funcs["arr"]["add"] = "av>a"
    /\ ultra_schema.funcs["typ"]["is_in"] = <<"a?i*>*", "*>b">>
    /\ ultra_schema.funcs["typ"]["len"] = ">*"

(***************************************************************************)
(* C4: for any line with a bracketed span that holds '|', parse_bnf_line   *)
(* records as optional_choices the trimmed '|'-separated entries of that   *)
(* span, in order, without the empty ones and the ones starting with '@',  *)
(* and records no choice group when no entry remains.                      *)
(***************************************************************************)
ChoiceSpans(l) ==
    LET HasBar(span) == Contains(span, "|")
    IN  SelectSeq(FindOptionalSpans(strip(l)), HasBar)

C4_ChoicesOfEverySpan ==
    parsed_line # NotRun =>
        LET spans == ChoiceSpans(bnf_line)
        IN  /\ \A i \in 1..Len(spans) :
                  ChoicesOf(spans[i]) # <<>> =>
                      /\ "optional_choices" \in DOMAIN parsed_line
                      /\ parsed_line["optional_choices"] = ChoicesOf(spans[i])
            /\ (\A i \in 1..Len(spans) : ChoicesOf(spans[i]) = <<>>) =>
                  "optional_choices" \notin DOMAIN parsed_line

(***************************************************************************)
(* C5: in every converter that emits the ultra tier, a statement with      *)
(* syntax is stored under its name split on '/', each segment replaced by  *)
(* its abbreviation-table value or else by its first 3 characters, joined  *)
(* with '/': "define/table" is stored under "def/tbl".                     *)
(***************************************************************************)
\* The statements of the input that have at least one syntax block.
WithSyntax ==
    {i \in 1..Len(raw_data.statements) :
        ~LacksList(raw_data.statements[i].value, "syntax")}

ReferenceKey(stmt_name) ==
    LET segments == SplitOn(stmt_name, "/")
    IN  Join([i \in 1..Len(segments) |->
                 IF segments[i] \in DOMAIN abbreviations THEN abbreviations[segments[i]]
                 ELSE Prefix(segments[i], 3)], "/")

KeysAsReference(stmts) ==
    DOMAIN stmts = {ReferenceKey(raw_data.statements[i].key) : i \in WithSyntax}

C5_AbbreviatedKeys ==
    /\ "ultra_convert_all" \in ran => KeysAsReference(ultra_schema.stmts)
    /\ "create_compressed_schema" \in ran => KeysAsReference(compressed_schema.stmts)

(***************************************************************************)
(* C6: a statement with n >= 2 syntax blocks yields exactly n variant      *)
(* records, in block order, and the keywords, variables and optional       *)
(* groups of variant i come from the lines of block i alone: two           *)
(* statements that agree on block i agree on variant i, whatever their     *)
(* other blocks are. Where the record sits in the tree when statements lie *)
(* on each other's path is C13's matter.                                   *)
(***************************************************************************)
PathOf(item) == Tail(SplitOn(item.hierarchy, "."))

IsStatementItem(item) == StartsWith(item.hierarchy, "statements.")

IsPrefixOf(p, q) == Len(p) <= Len(q) /\ SubSeq(q, 1, Len(p)) = p

\* No other statement of the input lies on the path of item k.
PathApart(k) ==
    \A j \in 1..Len(bnf_raw) :
        (j # k /\ IsStatementItem(bnf_raw[j])) =>
            /\ ~IsPrefixOf(PathOf(bnf_raw[j]), PathOf(bnf_raw[k]))
            /\ ~IsPrefixOf(PathOf(bnf_raw[k]), PathOf(bnf_raw[j]))

RECURSIVE TreeGet(_, _)
TreeGet(tree, parts) ==
    IF parts = <<>> THEN tree
    ELSE IF Head(parts) \in DOMAIN tree THEN TreeGet(tree[Head(parts)], Tail(parts))
    ELSE NoneObj

\* The keyword, variable and optional fields of a variant record.
ScopedFields(rec) == [k \in DOMAIN rec \cap {"keywords", "variables", "optional"} |-> rec[k]]

HasVariants(k) ==
    /\ IsStatementItem(bnf_raw[k])
    /\ Len(bnf_raw[k].data.syntax_blocks) >= 2
    /\ PathApart(k)

C6_VariantsPerBlock ==
    bnf_calls > 0 =>
        \A k \in 1..Len(bnf_raw) :
            HasVariants(k) =>
                LET blocks == bnf_raw[k].data.syntax_blocks
                    rec == TreeGet(bnf_schema, PathOf(bnf_raw[k]))
                IN  /\ rec # NoneObj
                    /\ "variants" \in DOMAIN rec
                    /\ Len(rec["variants"]) = Len(blocks)
                    /\ \A i \in 1..Len(blocks) :
                          /\ rec["variants"][i]["syntax"] = blocks[i]
                          /\ \A f \in {"keywords", "variables"} :
                                f \in DOMAIN rec["variants"][i] =>
                                    \A w \in Range(rec["variants"][i][f]) :
                                        IsSubstring(w, blocks[i])
                          /\ \A k2 \in 1..Len(bnf_raw) :
                                (/\ HasVariants(k2)
                                 /\ Len(bnf_raw[k2].data.syntax_blocks) >= i
                                 /\ bnf_raw[k2].data.syntax_blocks[i] = blocks[i]) =>
                                    ScopedFields(TreeGet(bnf_schema,
                                            PathOf(bnf_raw[k2]))["variants"][i])
                                        = ScopedFields(rec["variants"][i])

C6_Witness ==
    /\ bnf_calls > 0
    /\ Len(bnf_raw) = 2
    /\ HasVariants(1) /\ HasVariants(2)
    /\ bnf_raw[1].data.syntax_blocks = <<BlockSelect, BlockLive>>
    /\ bnf_raw[2].data.syntax_blocks = <<BlockSelect, BlockDefine>>
    /\ Len(TreeGet(bnf_schema, PathOf(bnf_raw[1]))["variants"]) = 2
    /\ TreeGet(bnf_schema, PathOf(bnf_raw[1]))["variants"][2]["keywords"]
           = <<"DIFF", "LIVE", "SELECT">>

(***************************************************************************)
(* C7: two runs of the pipeline on the same input leave the same full,     *)
(* enhanced and ultra trees and the same routing table, the order of every *)
(* list included.                                                          *)
(***************************************************************************)
C7_RunsAgree ==
    (prev_run # NotRun /\ ran = AllConversions) =>
        /\ full_schema = prev_run.full
        /\ enhanced_schema = prev_run.enhanced
        /\ intent_router = prev_run.routes
        /\ ultra_schema = prev_run.ultra
        /\ compressed_schema = prev_run.compressed

(***************************************************************************)
(* C8: in every ultra-tier statement entry, 'k' has at most 3 elements, no *)
(* element twice, only uppercase words of two or more letters found in the *)
(* first 3 lines of the statement's first syntax block, in the order of    *)
(* their first occurrence there.                                           *)
(***************************************************************************)
\* The uppercase words of the first 3 lines of a block, as they occur.
WordsOfHead(block) == HeadKeywords(Prefix(SplitOn(block, "\n"), 3))

FirstOccurrence(w, words) == CHOOSE i \in 1..Len(words) : words[i] = w /\ \A j \in 1..(i-1) : words[j] # w

KeywordsInOrder(k, block) ==
    LET words == WordsOfHead(block)
    IN  /\ Len(k) <= 3
        /\ \A i, j \in 1..Len(k) : i # j => k[i] # k[j]
        /\ \A i \in 1..Len(k) :
              /\ Len(k[i]) >= 2
              /\ RunLen(k[i], "[A-Z]") = Len(k[i])
              /\ k[i] \in Range(words)
        /\ \A i, j \in 1..Len(k) :
              i < j => FirstOccurrence(k[i], words) < FirstOccurrence(k[j], words)

\* Every entry of stmts is the entry of a statement of the input, with the
\* keywords of that statement's first block.
EntriesInOrder(stmts) ==
    \A key \in DOMAIN stmts :
        \E i \in WithSyntax :
            KeywordsInOrder(stmts[key]["k"], raw_data.statements[i].value["syntax"][1])

C8_UltraKeywords ==
    /\ "ultra_convert_all" \in ran => EntriesInOrder(ultra_schema.stmts)
    /\ "create_compressed_schema" \in ran => EntriesInOrder(compressed_schema.stmts)

(***************************************************************************)
(* C9: a statement whose list of syntax blocks is empty leaves no entry in *)
(* the statements tree process_statements builds: no key, no empty record, *)
(* no record that holds only metadata.                                     *)
(***************************************************************************)
C9_NoEntryWithoutSyntax ==
    bnf_calls > 0 =>
        \A k \in 1..Len(bnf_raw) :
            (/\ IsStatementItem(bnf_raw[k])
             /\ bnf_raw[k].data.syntax_blocks = <<>>
             /\ PathApart(k)) =>
                TreeGet(bnf_schema, PathOf(bnf_raw[k])) = NoneObj

(***************************************************************************)
(* C10 as stated: once the three tiers are built, every statement with a   *)
(* syntax block has an entry in the full, the enhanced and the ultra tree  *)
(* (there under its abbreviated key), and the ultra tree holds as many     *)
(* statement entries as the full tree.                                     *)
(***************************************************************************)
TiersBuilt == ran = AllConversions

NamesWithSyntax == {raw_data.statements[i].key : i \in WithSyntax}

InEveryTier(stmt_name) ==
    /\ stmt_name \in DOMAIN full_schema.statements
    /\ stmt_name \in DOMAIN enhanced_schema.statements
    /\ _abbreviate_statement(stmt_name) \in DOMAIN ultra_schema.stmts
    /\ DualSchemaConverter_abbreviate_statement(stmt_name)
           \in DOMAIN compressed_schema.stmts

C10_SameCountInEveryTier ==
    TiersBuilt =>
        /\ \A stmt_name \in NamesWithSyntax : InEveryTier(stmt_name)
        /\ Cardinality(DOMAIN ultra_schema.stmts)
               = Cardinality(DOMAIN full_schema.statements)
        /\ Cardinality(DOMAIN compressed_schema.stmts)
               = Cardinality(DOMAIN full_schema.statements)

(***************************************************************************)
(* C10 amended: once the three tiers are built, every statement with a     *)
(* syntax block has an entry in the full, the enhanced and the ultra tree  *)
(* (there under its abbreviated key, which statements may share) and a     *)
(* statement without one has none; the statement entries of the full and   *)
(* the enhanced tree are the names with syntax, those of the ultra tree    *)
(* their abbreviated keys: as many as the full tree when no two names      *)
(* share a key, fewer otherwise.                                            *)
(***************************************************************************)
C10_AllTiersOrNone ==
    TiersBuilt =>
        /\ \A stmt_name \in NamesWithSyntax : InEveryTier(stmt_name)
        /\ DOMAIN full_schema.statements = NamesWithSyntax
        /\ DOMAIN enhanced_schema.statements = NamesWithSyntax
        /\ DOMAIN ultra_schema.stmts
               = {_abbreviate_statement(n) : n \in NamesWithSyntax}
        /\ DOMAIN compressed_schema.stmts
               = {DualSchemaConverter_abbreviate_statement(n) : n \in NamesWithSyntax}
        /\ Cardinality(DOMAIN ultra_schema.stmts)
               <= Cardinality(DOMAIN full_schema.statements)
        /\ (\A m, n \in NamesWithSyntax :
                m # n => _abbreviate_statement(m) # _abbreviate_statement(n))
              => Cardinality(DOMAIN ultra_schema.stmts)
                    = Cardinality(DOMAIN full_schema.statements)

C10_Witness ==
    /\ TiersBuilt
    /\ NamesWithSyntax = {"define/model", "define/module"}
    /\ DOMAIN full_schema.statements = {"define/model", "define/module"}
    /\ DOMAIN enhanced_schema.statements = {"define/model", "define/module"}
    /\ DOMAIN ultra_schema.stmts = {"def/mod"}

(***************************************************************************)
(* C11: a block that is not ns::name(params) [-> return_type] makes         *)
(* parse_function_signature return None, and extract_api_definition_blocks  *)
(* leaves it out while it keeps every other signature of the file in order; *)
(* parse_bnf_line returns the empty dict for a blank line and a dict of its *)
(* four fields for any other line.                                          *)
(***************************************************************************)
Wellformed(text) == \E e \in ApiTable : e.text = text /\ e.wellformed

RECURSIVE WellformedOf(_)
WellformedOf(matches) ==
    IF matches = <<>> THEN <<>>
    ELSE (IF Wellformed(Head(matches)) THEN <<Head(matches)>> ELSE <<>>)
         \o WellformedOf(Tail(matches))

LineFields == {"optional_choices", "optional", "variables", "keywords"}

C11_NoMatchIsSkipped ==
    /\ \A e \in ApiTable :
          (parse_function_signature(e.text) = NoneObj) <=> ~e.wellformed
    /\ api_signatures # NotRun =>
          LET kept == WellformedOf(api_matches)
              signatures == api_signatures.returned
          IN  /\ Len(signatures) = Len(kept)
              /\ \A i \in 1..Len(kept) :
                    /\ signatures[i] # NoneObj
                    /\ signatures[i] = parse_function_signature(kept[i])
    /\ parsed_line # NotRun =>
          /\ DOMAIN parsed_line \subseteq LineFields
          /\ strip(bnf_line) = "" => parsed_line = EmptyDict

C11_Witness ==
    /\ api_matches = <<"Array::add(array)", "array::add(array, value) -> array">>
    /\ api_signatures # NotRun
    /\ Len(api_signatures.returned) = 1
    /\ bnf_line = "   "
    /\ parsed_line = EmptyDict

(***************************************************************************)
(* C12: after process_statements a statement with exactly one syntax block  *)
(* holds the fields of that block directly, without a 'variants' key; a     *)
(* statement with several blocks holds them only inside 'variants'; both    *)
(* carry exactly one metadata record (title, description), at the           *)
(* statement level, and no variant carries one. Statements on each other's  *)
(* path are left to C13.                                                    *)
(***************************************************************************)
StatementFields == {"syntax", "components", "keywords", "variables", "optional"}

MetadataOf(data) ==
    [title |-> data.title, description |-> data.description,
     sidebar_label |-> data.sidebar_label]

C12_FieldsDirectOrInVariants ==
    bnf_calls > 0 =>
        \A k \in 1..Len(bnf_raw) :
            (IsStatementItem(bnf_raw[k]) /\ PathApart(k)) =>
                LET blocks == bnf_raw[k].data.syntax_blocks
                    rec == TreeGet(bnf_schema, PathOf(bnf_raw[k]))
                IN  /\ Len(blocks) = 1 =>
                          /\ rec # NoneObj
                          /\ "variants" \notin DOMAIN rec
                          /\ rec["syntax"] = blocks[1]
                          /\ DOMAIN rec \subseteq StatementFields \cup {"metadata"}
                          /\ rec["metadata"] = MetadataOf(bnf_raw[k].data)
                    /\ Len(blocks) >= 2 =>
                          /\ rec # NoneObj
                          /\ DOMAIN rec = {"variants", "metadata"}
                          /\ rec["metadata"] = MetadataOf(bnf_raw[k].data)
                          /\ \A i \in 1..Len(rec["variants"]) :
                                /\ DOMAIN rec["variants"][i] \subseteq StatementFields
                                /\ "syntax" \in DOMAIN rec["variants"][i]

C12_Witness ==
    /\ bnf_calls > 0
    /\ Len(bnf_raw) = 2
    /\ bnf_raw[1].hierarchy = "statements.select"
    /\ bnf_raw[1].data.syntax_blocks = <<BlockSelect>>
    /\ bnf_raw[2].hierarchy = "statements.define.table"
    /\ bnf_raw[2].data.syntax_blocks = <<BlockDefine, BlockLive>>
    /\ bnf_schema["select"]["keywords"] = <<"FROM", "SELECT">>
    /\ "metadata" \in DOMAIN bnf_schema["select"]
    /\ Len(bnf_schema["define"]["table"]["variants"]) = 2
    /\ "metadata" \in DOMAIN bnf_schema["define"]["table"]

(***************************************************************************)
(* C13: once process_statements has handled every input key, each key      *)
(* statements.a.b... has its own record at the position a -> b -> ... of    *)
(* the statements tree, in whatever order the keys come and also when one   *)
(* key's path is a prefix of another's: no record is lost or overwritten.   *)
(***************************************************************************)
HoldsOwnRecord(item) ==
    LET rec == TreeGet(bnf_schema, PathOf(item))
    IN  /\ rec # NoneObj
        /\ "metadata" \in DOMAIN rec
        /\ rec["metadata"] = MetadataOf(item.data)

C13_EveryKeyAtItsPath ==
    bnf_calls > 0 =>
        \A k \in 1..Len(bnf_raw) :
            (IsStatementItem(bnf_raw[k]) /\ bnf_raw[k].data.syntax_blocks # <<>>)
                => HoldsOwnRecord(bnf_raw[k])

(***************************************************************************)
(* C14: in the full tier each statement lists at most 10 keywords and at    *)
(* most 10 variables: the first 10 distinct keywords and the first 10       *)
(* distinct variables of the statement's syntax, in the order of their      *)
(* first occurrence in the text.                                            *)
(***************************************************************************)
RECURSIVE DistinctInOrder(_, _)
DistinctInOrder(words, seen) ==
    IF words = <<>> THEN <<>>
    ELSE (IF Head(words) \in seen THEN <<>> ELSE <<Head(words)>>)
         \o DistinctInOrder(Tail(words), seen \cup {Head(words)})

RECURSIVE WordsInText(_, _)
WordsInText(lines, kind) ==
    IF lines = <<>> THEN <<>>
    ELSE (IF kind = "keywords"
          THEN LET LongEnough(m) == Len(m) > 1
               IN  SelectSeq(FindUpperUnderscoreWords(Head(lines)), LongEnough)
          ELSE FindVariables(Head(lines)))
         \o WordsInText(Tail(lines), kind)

FirstTen(syntax, kind) ==
    Prefix(DistinctInOrder(WordsInText(SplitOn(syntax, "\n"), kind), {}), 10)

C14_FirstTenInTextOrder ==
    "create_full_schema" \in ran =>
        \A i \in WithSyntax :
            LET stmt == raw_data.statements[i]
                entry == full_schema.statements[stmt.key]
            IN  /\ Len(entry.keywords) <= 10
                /\ Len(entry.variables) <= 10
                /\ entry.keywords = FirstTen(stmt.value["syntax"][1], "keywords")
                /\ entry.variables = FirstTen(stmt.value["syntax"][1], "variables")

(***************************************************************************)
(* C15: every entry of the enhanced routing table (statement, function      *)
(* namespace, operator category) holds at most 5 keywords, which are the    *)
(* first 5 keywords / function names / operator symbols of the entry, and   *)
(* the path "statements.<name>", "functions.<namespace>" or                 *)
(* "operators.<category>". For a statement, whose keywords are a set, any   *)
(* 5 of them are taken for the first 5.                                     *)
(***************************************************************************)
RouteOf(section, key) == intent_router[section][key]

FunctionNames(ns_data) ==
    DistinctInOrder([i \in 1..Len(ns_data["functions"]) |->
                        ns_data["functions"][i]["function"]], {})

StatementRouteOk(stmt) ==
    LET route == RouteOf("statements", Join(SplitOn(stmt.key, "/"), "_"))
        keywords == _extract_keywords(_parse_statement_syntax(stmt.value["syntax"][1]))
    IN  /\ Len(route.keywords) <= 5
        /\ Range(route.keywords) \subseteq keywords
        /\ Cardinality(Range(route.keywords)) = Len(route.keywords)
        /\ Cardinality(keywords) <= 5 => Range(route.keywords) = keywords
        /\ route.path = "statements." \o stmt.key

FunctionRouteOk(ns) ==
    LET route == RouteOf("functions", ns.key)
    IN  /\ Len(route.keywords) <= 5
        /\ route.keywords = Prefix(FunctionNames(ns.value), 5)
        /\ route.path = "functions." \o ns.key

OperatorRouteOk(cat) ==
    LET route == RouteOf("operators", cat.key)
    IN  /\ Len(route.keywords) <= 5
        /\ route.keywords = Prefix([i \in 1..Len(cat.value) |-> cat.value[i]["symbol"]], 5)
        /\ route.path = "operators." \o cat.key

C15_RoutesHoldFirstFive ==
    "enhanced_convert_all" \in ran =>
        /\ \A i \in WithSyntax : StatementRouteOk(raw_data.statements[i])
        /\ \A i \in 1..Len(raw_data.functions) :
              ~LacksList(raw_data.functions[i].value, "functions")
                  => FunctionRouteOk(raw_data.functions[i])
        /\ \A i \in 1..Len(raw_data.operators) :
              raw_data.operators[i].value # <<>> => OperatorRouteOk(raw_data.operators[i])

(***************************************************************************)
(* C16: in the ultra tier every operator of a non-empty category gives one  *)
(* string, "symbol|alternative" when it has an alternative and "symbol"     *)
(* otherwise, in input order under the first 3 characters of the category   *)
(* name; a function name with one signature maps to a single compressed     *)
(* string, one with n >= 2 signatures to a list of n compressed strings in  *)
(* input order.                                                             *)
(***************************************************************************)
OperatorString(op) ==
    IF "alternative" \in DOMAIN op /\ op["alternative"] \notin {None, ""}
    THEN op["symbol"] \o "|" \o op["alternative"]
    ELSE op["symbol"]

OpsAsExpected(ops) ==
    \A c \in 1..Len(raw_data.operators) :
        LET category == raw_data.operators[c]
            cat_key == Prefix(category.key, 3)
        IN  IF category.value = <<>> THEN cat_key \notin DOMAIN ops
            ELSE /\ cat_key \in DOMAIN ops
                 /\ Len(ops[cat_key]) = Len(category.value)
                 /\ \A i \in 1..Len(category.value) :
                       ops[cat_key][i] = OperatorString(category.value[i])

OverloadsAsExpected(funcs) ==
    \A n \in OwnNamespaces :
        LET functions == raw_data.functions[n].value.functions
            ns_funcs == funcs[Prefix(raw_data.functions[n].key, 3)]
        IN  \A f \in 1..Len(functions) :
               LET sigs == Overloads(functions, functions[f].function)
                   entry == ns_funcs[functions[f].function]
               IN  IF Len(sigs) = 1 THEN entry = ExpectedSignature(sigs[1])
                   ELSE /\ Len(entry) = Len(sigs)
                        /\ \A i \in 1..Len(sigs) : entry[i] = ExpectedSignature(sigs[i])

C16_OperatorStringsAndOverloads ==
    /\ "ultra_convert_all" \in ran =>
          OpsAsExpected(ultra_schema.ops) /\ OverloadsAsExpected(ultra_schema.funcs)
    /\ "create_compressed_schema" \in ran =>
          OpsAsExpected(compressed_schema.ops)
          /\ OverloadsAsExpected(compressed_schema.funcs)

C16_Witness ==
    /\ {"ultra_convert_all", "create_compressed_schema"} \subseteq ran
    /\ ultra_schema.ops = [log |-> <<"&&|AND", "!">>]
    /\ compressed_schema.ops = [log |-> <<"&&|AND", "!">>]
    /\ Len(raw_data.operators) = 2

RECURSIVE OpenBrackets(_, _)
OpenBrackets(s, n) ==
    IF n = 0 THEN 0
    ELSE LET d == OpenBrackets(s, n - 1)
             char == At(s, n)
         IN  IF Contains("([{<", char) THEN d + 1
             ELSE IF Contains(")]}>", char) /\ d > 0 THEN d - 1
             ELSE d

TopLevelCommas(s) == {i \in 1..Len(s) : At(s, i) = "," /\ OpenBrackets(s, i - 1) = 0}

\* The pieces of s between the positions of cuts, from position from on,
\* trimmed; nothing for an empty rest after the last cut.
RECURSIVE PiecesFrom(_, _, _)
PiecesFrom(s, from, cuts) ==
    LET later == {c \in cuts : c >= from}
    IN  IF later = {}
        THEN IF from > Len(s) THEN <<>> ELSE <<strip(SubSeq(s, from, Len(s)))>>
        ELSE LET c == CHOOSE x \in later : \A y \in later : x <= y
             IN  <<strip(SubSeq(s, from, c - 1))>> \o PiecesFrom(s, c + 1, cuts)

C18_SplitsAtTopLevelCommas ==
    split_parts # NotRun =>
        split_parts.returned = PiecesFrom(split_input, 1, TopLevelCommas(split_input))

(***************************************************************************)
(* C19: for a line with several bracketed spans, every span that qualifies  *)
(* (a choice group with an entry left, a single optional token that does    *)
(* not start with '@') is recorded as its own optional group, and the       *)
(* optional list convert_statement_syntax builds from the line holds all    *)
(* of them in order of appearance, equal groups as separate entries.        *)
(***************************************************************************)
RECURSIVE QualifyingGroups(_)
QualifyingGroups(spans) ==
    IF spans = <<>> THEN <<>>
    ELSE LET span == Head(spans)
         IN  (IF Contains(span, "|")
              THEN IF ChoicesOf(span) # <<>> THEN <<ChoicesOf(span)>> ELSE <<>>
              ELSE IF ~StartsWith(span, "@") THEN <<(<<strip(span)>>)>> ELSE <<>>)
             \o QualifyingGroups(Tail(spans))

C19_EverySpanIsAGroup ==
    parsed_line # NotRun =>
        OptionalComponents(<<parsed_line>>)
            = QualifyingGroups(FindOptionalSpans(strip(bnf_line)))

(***************************************************************************)
(* C20: parse_bnf_line keeps a keyword candidate (a run of two or more      *)
(* capitals) exactly when its text is not a substring of any bracketed span *)
(* captured on the same line: a keyword outside the brackets is dropped     *)
(* when its text occurs inside a bracket of its own line, and the brackets  *)
(* of the other lines of a block never drop it.                             *)
(***************************************************************************)
InSpanOf(keyword, line) ==
    \E i \in 1..Len(FindOptionalSpans(line)) :
        IsSubstring(keyword, FindOptionalSpans(line)[i])

KeywordsOf(parsed) == DictGet(parsed, "keywords", <<>>)

\* The kept keywords are the candidates outside every span, in line order.
KeptAre(kept, candidates, line) ==
    /\ \A i \in 1..Len(kept) : ~InSpanOf(kept[i], line)
    /\ \A i \in 1..Len(candidates) :
          InSpanOf(candidates[i], line) <=> candidates[i] \notin Range(kept)
    /\ Len(kept) = Cardinality({i \in 1..Len(candidates) : ~InSpanOf(candidates[i], line)})
    /\ \A i \in 1..Len(kept) : \E j \in i..Len(candidates) : candidates[j] = kept[i]

\* Inside a block the line is parsed as it is parsed alone.
AloneInBlock(line, other) ==
    /\ ParsedLines(other \o "\n" \o line) = ParsedLines(other) \o ParsedLines(line)
    /\ ParsedLines(line \o "\n" \o other) = ParsedLines(line) \o ParsedLines(other)

LinesOfBlock(block) == SplitOn(block, "\n")

LineKeywords(block) ==
    UNION {Range(KeywordsOf(parse_bnf_line(LinesOfBlock(block)[i]))) :
              i \in 1..Len(LinesOfBlock(block))}

LineVariables(block) ==
    UNION {Range(FindVariables(LinesOfBlock(block)[i])) : i \in 1..Len(LinesOfBlock(block))}

\* list holds the elements of S, each once, in ascending order.
SortedOnce(list, S) ==
    /\ Range(list) = S
    /\ \A i \in 1..(Len(list) - 1) : StrLess(list[i], list[i + 1])

FieldIsSet(rec, field, S) ==
    IF S = {} THEN field \notin DOMAIN rec
    ELSE field \in DOMAIN rec /\ SortedOnce(rec[field], S)

\* The records convert_statement_syntax built for the blocks of item k.
BlockRecords(k) ==
    LET rec == TreeGet(bnf_schema, PathOf(bnf_raw[k]))
    IN  IF Len(bnf_raw[k].data.syntax_blocks) = 1 THEN <<rec>> ELSE rec["variants"]

C21_KeywordsAndVariablesAreSortedSets ==
    bnf_calls > 0 =>
        \A k \in 1..Len(bnf_raw) :
            (IsStatementItem(bnf_raw[k]) /\ PathApart(k)) =>
                \A i \in 1..Len(bnf_raw[k].data.syntax_blocks) :
                    /\ FieldIsSet(BlockRecords(k)[i], "keywords",
                                  LineKeywords(bnf_raw[k].data.syntax_blocks[i]))
                    /\ FieldIsSet(BlockRecords(k)[i], "variables",
                                  LineVariables(bnf_raw[k].data.syntax_blocks[i]))

\* A block that names IF and @cond on two lines, and a block without any
\* keyword or variable, have been converted.
C21_Witness ==
    /\ bnf_calls > 0
    /\ \E k \in 1..Len(bnf_raw) :
          /\ IsStatementItem(bnf_raw[k]) /\ PathApart(k)
          /\ bnf_raw[k].data.syntax_blocks = <<BlockThen, BlockBare>>
          /\ BlockRecords(k)[1]["keywords"] = <<"ELSE", "END", "IF", "THEN">>
          /\ BlockRecords(k)[1]["variables"] = <<"cond", "else", "then">>
          /\ DOMAIN BlockRecords(k)[2] \cap {"keywords", "variables"} = {}

(***************************************************************************)
(* C22: in the enhanced tier the keyword, variable and optional lists of a  *)
(* statement are complete: every keyword, every @variable and every         *)
(* bracketed optional part of any line of any syntax block of the statement *)
(* is in the corresponding list, each exactly once.                         *)
(***************************************************************************)
\* What extract(parsed) finds in the blocks, taken together.
OfBlocks(extract(_), blocks) ==
    UNION {extract(_parse_statement_syntax(blocks[i])) : i \in 1..Len(blocks)}

HoldsOnce(list, S) == Range(list) = S /\ Len(list) = Cardinality(S)

EnhancedListsOf(blocks, entry) ==
    /\ HoldsOnce(entry.keywords, OfBlocks(_extract_keywords, blocks))
    /\ HoldsOnce(entry.variables, OfBlocks(_extract_variables, blocks))
    /\ HoldsOnce(entry.optional, OfBlocks(_extract_optional_parts, blocks))

C22_EnhancedListsComplete ==
    "enhanced_convert_all" \in ran =>
        \A i \in WithSyntax :
            /\ raw_data.statements[i].key \in DOMAIN enhanced_schema.statements
            /\ EnhancedListsOf(raw_data.statements[i].value.syntax,
                               enhanced_schema.statements[raw_data.statements[i].key])

(***************************************************************************)
(* C23: for every syntax text, the syntax_pattern _extract_pattern returns  *)
(* has at most 100 characters, holds no bracketed optional span "[...]" of  *)
(* the input (the spans that run over several lines included), has every    *)
(* @name replaced by "<var>", and has every run of whitespace collapsed to  *)
(* one space.                                                               *)
(***************************************************************************)
HoldsBracketedSpan(s) ==
    \E i \in 1..Len(s) : At(s, i) = "[" /\ \E j \in (i + 1)..Len(s) : At(s, j) = "]"

HoldsVariable(s) ==
    \E i \in 1..(Len(s) - 1) : At(s, i) = "@" /\ IsWordChar(At(s, i + 1))

WhitespaceCollapsed(s) ==
    /\ \A i \in 1..Len(s) : IsSpace(At(s, i)) => At(s, i) = " "
    /\ \A i \in 1..(Len(s) - 1) : ~(At(s, i) = " " /\ At(s, i + 1) = " ")
    /\ s # "" => At(s, 1) # " "

C23_PatternIsSimplified ==
    pattern_result # None =>
        /\ Len(pattern_result) <= 100
        /\ ~HoldsBracketedSpan(pattern_result)
        /\ ~HoldsVariable(pattern_result)
        /\ WhitespaceCollapsed(pattern_result)

(***************************************************************************)
(* C24: in the ultra tier the key of a function namespace and the key of an *)
(* operator category follow the rule of the statement keys: the value of    *)
(* the abbreviation dictionary when the identifier is in the dictionary,    *)
(* the first 3 characters of the identifier otherwise.                      *)
(***************************************************************************)
RuleKey(dictionary, identifier) == DictGet(dictionary, identifier, Prefix(identifier, 3))

\* The namespaces that hold a function, the categories that hold an operator.
NamespacesWithFunctions ==
    {raw_data.functions[i].key : i \in {j \in 1..Len(raw_data.functions) :
        ~LacksList(raw_data.functions[j].value, "functions")}}

CategoriesWithOperators ==
    {raw_data.operators[i].key : i \in {j \in 1..Len(raw_data.operators) :
        raw_data.operators[j].value # <<>>}}

KeysFollowRule(tree, dictionary) ==
    /\ DOMAIN tree.funcs = {RuleKey(dictionary, ns) : ns \in NamespacesWithFunctions}
    /\ DOMAIN tree.ops = {RuleKey(dictionary, cat) : cat \in CategoriesWithOperators}

C24_NamespaceAndCategoryKeys ==
    /\ "ultra_convert_all" \in ran => KeysFollowRule(ultra_schema, abbreviations)
    /\ "create_compressed_schema" \in ran =>
           KeysFollowRule(compressed_schema, DualSchemaConverter_abbreviations)

(***************************************************************************)
(* C25 as stated: compress_type("array") is "a" and compress_type of        *)
(* array<T> is "a" followed by the code of T, so the parameter lists        *)
(* [array, T] and [array<T>] compress to the same signature string for      *)
(* every T: the encoder does nothing to make them differ.                   *)
(***************************************************************************)
TypedParams(types) == [i \in 1..Len(types) |-> [name |-> "p", type |-> types[i]]]

SignatureOf(types) ==
    _compress_signature([parameters |-> TypedParams(types), return_type |-> "bool"])

ArrayOf(t) == "array<" \o t \o ">"

SameSignature(t) ==
    /\ compress_type("array") = "a"
    /\ compress_type(ArrayOf(t)) = "a" \o type_code
    /\ SignatureOf(<<"array", t>>) = SignatureOf(<<ArrayOf(t)>>)

WordsIn(text) ==
    Cardinality({i \in 1..Len(text) :
        ~IsSpace(At(text, i)) /\ (i = 1 \/ IsSpace(At(text, i - 1)))})

RECURSIVE WordCount(_)
WordCount(tree) ==
    IF tree.kind = "scalar" THEN WordsIn(tree.text)
    ELSE IF tree.items = <<>> THEN 0
    ELSE LET first == Head(tree.items)
             others == [tree EXCEPT !.items = Tail(tree.items)]
         IN  IF tree.kind = "dict"
             THEN WordsIn(first.key) + 1 + WordCount(first.value) + WordCount(others)
             ELSE WordCount(first) + WordCount(others)

\* The subtrees of a tree, the tree itself among them.
RECURSIVE Subtrees(_)
Subtrees(tree) ==
    {tree} \cup
    (IF tree.kind = "scalar" THEN {}
     ELSE UNION {Subtrees(IF tree.kind = "dict" THEN tree.items[i].value ELSE tree.items[i]) :
                    i \in 1..Len(tree.items)})

C26_EstimateIsWordCount ==
    estimate_count # NotRun =>
        /\ estimate_count.returned = WordCount(estimate_tree)
        /\ estimate_count.returned >= 0
        /\ \A sub \in Subtrees(estimate_tree) :
              estimate_token_count(sub) <= estimate_count.returned

\* A dict under a two-word key that holds a dict with a scalar of several
\* words: 2 + 1 for the key, 1 + 1 for the inner key, 3 for the scalar.
C26_Witness ==
    /\ estimate_count # NotRun
    /\ estimate_tree = DictOf(<<Item("sidebar label",
                                    DictOf(<<Item("keywords",
                                                  Scalar("  IF  NOT\tEXISTS\n"))>>))>>)
    /\ estimate_count.returned = 8

(***************************************************************************)
(* C27: for every input, compress_type returns a non-empty string whose     *)
(* characters are all among the 16 codes of the table and '?', so it never  *)
(* holds '>' or '|'; hence a compressed function signature holds exactly    *)
(* one '>' and the text after it is the code of the return type.            *)
(***************************************************************************)
CodeChars == {type_map[t] : t \in DOMAIN type_map} \cup {"?"}

IsCode(code) == code # "" /\ \A i \in 1..Len(code) : At(code, i) \in CodeChars

\* The signature of a function that takes t and an array and returns t.
SignatureWith(t) ==
    _compress_signature([parameters |-> TypedParams(<<t, "array">>), return_type |-> t])

OneSeparator(sig_str, return_code) ==
    /\ Cardinality({i \in 1..Len(sig_str) : At(sig_str, i) = ">"}) = 1
    /\ SubSeq(sig_str, IndexIn(">", sig_str) + 1, Len(sig_str)) = return_code

C27_CodesAndOneSeparator ==
    type_code # None =>
        /\ IsCode(type_code)
        /\ Cardinality(CodeChars) = 17
        /\ {">", "|"} \cap CodeChars = {}
        /\ OneSeparator(SignatureWith(type_str), type_code)

C27_Witness ==
    /\ type_str = "array<option<int>>"
    /\ type_code = "a?i"
    /\ SignatureWith(type_str) = "a?ia>a?i"

(***************************************************************************)
(* C28: for the same input, the 'funcs' and 'ops' sections that             *)
(* DualSchemaConverter.create_compressed_schema builds are equal to those   *)
(* UltraCompressedConverter.convert_all builds: the two implementations of  *)
(* the ultra tier agree on every function namespace, signature string and   *)
(* operator group.                                                          *)
(***************************************************************************)
BothUltraTiersBuilt == {"create_compressed_schema", "ultra_convert_all"} \subseteq ran

C28_UltraTiersAgree ==
    BothUltraTiersBuilt =>
        /\ DOMAIN compressed_schema.funcs = DOMAIN ultra_schema.funcs
        /\ \A ns \in DOMAIN ultra_schema.funcs :
              /\ DOMAIN compressed_schema.funcs[ns] = DOMAIN ultra_schema.funcs[ns]
              /\ \A fn \in DOMAIN ultra_schema.funcs[ns] :
                    compressed_schema.funcs[ns][fn] = ultra_schema.funcs[ns][fn]
        /\ DOMAIN compressed_schema.ops = DOMAIN ultra_schema.ops
        /\ \A cat \in DOMAIN ultra_schema.ops :
              compressed_schema.ops[cat] = ultra_schema.ops[cat]

\* Both tiers hold the overloads of type::is_in, the function without
\* parameters type::len and an operator group.
C28_Witness ==
    /\ BothUltraTiersBuilt
    /\ DOMAIN ultra_schema.funcs = {"typ", "arr"}
    /\ compressed_schema.funcs["typ"]["is_in"] = <<"a?i*>*", "*>b">>
    /\ compressed_schema.funcs["typ"]["len"] = ">*"
    /\ ultra_schema.funcs["arr"]["add"] = "av>a"
    /\ compressed_schema.ops = [log |-> <<"!">>]

(***************************************************************************)
(* C29: the full and the ultra tier of DualSchemaConverter agree on every   *)
(* function signature: _compress_type applied to the 'params' entries of    *)
(* the full tier in order and to its 'returns' value, joined as params,     *)
(* '>', return, gives the string the ultra tier holds for that signature,   *)
(* also when a parameter type or the return type is missing or null.        *)
(***************************************************************************)
BothDualTiersBuilt == {"create_full_schema", "create_compressed_schema"} \subseteq ran

FromFull(full_sig) ==
    Concat([j \in 1..Len(full_sig.params) |-> _compress_type(full_sig.params[j])])
        \o ">" \o _compress_type(full_sig.returns)

\* The strings the ultra tier holds for a function, one per signature.
UltraStrings(ns, fn, n) ==
    IF n = 1 THEN <<compressed_schema.funcs[Prefix(ns, 3)][fn]>>
    ELSE compressed_schema.funcs[Prefix(ns, 3)][fn]

C29_FullAndUltraAgree ==
    BothDualTiersBuilt =>
        \A ns \in DOMAIN full_schema.functions :
            \A fn \in DOMAIN full_schema.functions[ns] :
                LET signatures == full_schema.functions[ns][fn].signatures
                IN  /\ Prefix(ns, 3) \in DOMAIN compressed_schema.funcs
                    /\ fn \in DOMAIN compressed_schema.funcs[Prefix(ns, 3)]
                    /\ Len(UltraStrings(ns, fn, Len(signatures))) = Len(signatures)
                    /\ \A i \in 1..Len(signatures) :
                          FromFull(signatures[i])
                              = UltraStrings(ns, fn, Len(signatures))[i]

\* A parameter without a type ('any' in the full tier), one whose type is
\* null, no return type: "**>*" in both; and a null return type.
C29_Witness ==
    /\ BothDualTiersBuilt
    /\ DOMAIN full_schema.functions = {"function", "type"}
    /\ full_schema.functions["function"]["len"].signatures[1].params = <<"any", None>>
    /\ full_schema.functions["function"]["len"].signatures[1].returns = "any"
    /\ compressed_schema.funcs["fun"]["len"] = "**>*"
    /\ full_schema.functions["type"]["len"].signatures[1].returns = None
    /\ compressed_schema.funcs["typ"]["len"] = ">*"

(***************************************************************************)
(* C30: running a conversion again on the same converter changes nothing:  *)
(* once process_statements (BNFToYAMLConverter) or convert_all             *)
(* (UltraCompressedConverter, EnhancedSchemaConverter) has run, every      *)
(* further run on that converter leaves the schema tree and the routing    *)
(* table as the first run left them, nothing added and nothing twice.      *)
(***************************************************************************)
\* The step is taken by converters that exist already (RunAgain makes new
\* ones).
SameConverters == prev_run' = prev_run

BnfRerunKeepsTree == bnf_calls >= 1 => bnf_schema' = bnf_schema

UltraRerunKeepsTree == "ultra_convert_all" \in ran => ultra_schema' = ultra_schema

EnhancedRerunKeepsTrees ==
    "enhanced_convert_all" \in ran =>
        enhanced_schema' = enhanced_schema /\ intent_router' = intent_router

C30_RerunChangesNothing ==
    [][SameConverters =>
          BnfRerunKeepsTree /\ UltraRerunKeepsTree /\ EnhancedRerunKeepsTrees]_vars

\* process_statements has run twice over define.table and define, the
\* second on the path of the first, and the tree holds define only.
C30_Witness ==
    /\ bnf_calls = 2
    /\ Len(bnf_raw) = 2
    /\ bnf_raw[1].hierarchy = "statements.define.table"
    /\ bnf_raw[2].hierarchy = "statements.define"
    /\ bnf_raw[2].data.syntax_blocks = <<BlockSelect, BlockLive>>
    /\ DOMAIN bnf_schema = {"define"}
    /\ DOMAIN bnf_schema["define"] = {"variants", "metadata"}
    /\ Len(bnf_schema["define"]["variants"]) = 2

====
